---- MODULE Spec2Model ----
(***************************************************************************)
(* Model of the dialogue engine's knowledge-consistency core:              *)
(*   WorldState  (src/world_state.py)  facts, locations, characters,       *)
(*                                     events, relationships and the       *)
(*                                     per-character schedule lists        *)
(*   FactChecker (src/fact_checker.py) claim extraction, claim validation  *)
(*                                     and the validation history          *)
(*   NPCAgent    (src/npc_agent.py)    memory, lies, omissions, knowledge  *)
(*   DialogueEngine (src/dialogue_engine.py) the NPC registry and converse *)
(*                                                                         *)
(* Python values are modelled as follows.                                  *)
(*   str            a TLA+ string                                          *)
(*   Optional[T]    <<>> for None, <<x>> for a value x                     *)
(*   Any            a record [type, repr]: the value's Python type and the *)
(*                  text str() gives for it                                *)
(*   dict           a function whose DOMAIN is the set of keys present,    *)
(*                  and where the order of the keys is looked at, the list *)
(*                  of the keys in the order they were first stored        *)
(*   list           a sequence                                             *)
(*   a statement    the sequence of its words; the text is the words       *)
(*                  joined by single spaces                                *)
(***************************************************************************)
EXTENDS Integers, Sequences, FiniteSets, TLC

VARIABLES
    facts,              \* WorldState.facts: key -> Fact
    fact_keys,          \* the keys of facts in the order the dict holds them
    events,             \* WorldState.events: event_id -> Event
    event_ids,          \* the ids of events in the order the dict holds them
    relationships,      \* WorldState.relationships: list of Relationship
    locations,          \* WorldState.locations
    characters,         \* WorldState.characters
    npc_schedules,      \* WorldState.npc_schedules: character -> list of entries
    validation_history, \* FactChecker.validation_history
    call,               \* the last operation called, with its arguments
    ret,                \* what that operation returned (or that it raised)
    marks,              \* how many validations carried the lie mark, the omission mark
    agents,             \* the NPCAgent objects constructed: name -> agent
    npcs,               \* DialogueEngine.npcs: lower-cased name -> name of the agent
    calls,              \* the calls under way: calling thread -> frame
    ended,              \* the frame of the call that just returned or raised
    fact_checking       \* DialogueEngine.fact_checker is not None

vars == <<facts, fact_keys, events, event_ids, relationships, locations, characters,
          npc_schedules, validation_history, call, ret, marks, agents, npcs,
          calls, ended, fact_checking>>

world == <<facts, fact_keys, events, event_ids, relationships, locations, characters,
           npc_schedules>>

(***************************************************************************)
(* Bounds of the model.                                                    *)
(***************************************************************************)
\* most schedule entries the world holds, all characters together
MaxSchedule == 2
\* most claims validated in one behaviour
MaxValidations == 2
\* most relationships the world holds
MaxRelationships == 2
\* most claims validated in one behaviour of SpecSummary
MaxSummed == 3

(***************************************************************************)
(* Python values.                                                          *)
(***************************************************************************)
None == <<>>
Some(x) == <<x>>

PyStr(s) == [type |-> "str", repr |-> s]

\* str(value)
str(v) == v.repr

\* Numbers.  An int is [type |-> "int", value |-> n].  A float is an IEEE 754
\* double: zero, or mant * 2^exp with mant a natural number of float_bits
\* bits.  A natural number too large for the integers of the model is the
\* sequence of its bits, the lowest first, <<>> for zero.
float_bits == 53

PyInt(n) == [type |-> "int", value |-> n]
PyFloat(mant, exp) == [type |-> "float", mant |-> mant, exp |-> exp]
float_zero == PyFloat(<<>>, 0)

RECURSIVE bits_of(_)
bits_of(n) == IF n = 0 THEN <<>> ELSE <<n % 2>> \o bits_of(n \div 2)

\* bit i of a, 0 above its length
bit_at(a, i) == IF i \in DOMAIN a THEN a[i] ELSE 0

\* without the zeros above the highest one
bits_trim(a) ==
    LET ones == {i \in DOMAIN a : a[i] = 1}
    IN IF ones = {} THEN <<>>
       ELSE SubSeq(a, 1, CHOOSE i \in ones : \A j \in ones : j <= i)

\* the carry into bit i of a + b: that of the nearest bit below in which a
\* and b agree
carry_into(a, b, i) ==
    LET agree == {j \in 1..(i - 1) : bit_at(a, j) = bit_at(b, j)}
    IN IF agree = {} THEN 0
       ELSE bit_at(a, CHOOSE j \in agree : \A k \in agree : k <= j)

\* a + b
bits_add(a, b) ==
    LET n == (IF Len(a) > Len(b) THEN Len(a) ELSE Len(b)) + 1
    IN bits_trim([i \in 1..n |->
                     (bit_at(a, i) + bit_at(b, i) + carry_into(a, b, i)) % 2])

\* a * 2^k
bits_shift(a, k) == IF a = <<>> THEN <<>> ELSE [i \in 1..k |-> 0] \o a

\* a * n, n an integer of the model
RECURSIVE bits_times(_, _)
bits_times(a, n) ==
    IF n = 0 THEN <<>>
    ELSE bits_add(IF n % 2 = 1 THEN a ELSE <<>>,
                  bits_shift(bits_times(a, n \div 2), 1))

\* a <= b
bits_le(a, b) ==
    LET x == bits_trim(a)
        y == bits_trim(b)
    IN \/ Len(x) < Len(y)
       \/ /\ Len(x) = Len(y)
          /\ \/ x = y
             \/ LET top == CHOOSE i \in DOMAIN x :
                               /\ x[i] # y[i]
                               /\ \A j \in DOMAIN x : j > i => x[j] = y[j]
                IN x[top] < y[top]

\* the natural number a without its `drop` lowest bits, rounded to nearest,
\* a tie to even
round_half_even(a, drop) ==
    LET kept == SubSeq(a, drop + 1, Len(a))
        above == /\ drop > 0
                 /\ a[drop] = 1
                 /\ \/ \E i \in 1..(drop - 1) : a[i] = 1
                    \/ kept[1] = 1
    IN IF above THEN bits_add(kept, <<1>>) ELSE kept

\* the double nearest to a * 2^exp
to_float(a, exp) ==
    LET t == bits_trim(a)
    IN IF t = <<>> THEN float_zero
       ELSE IF Len(t) <= float_bits
       THEN PyFloat(bits_shift(t, float_bits - Len(t)), exp - (float_bits - Len(t)))
       ELSE LET drop == Len(t) - float_bits
                r == round_half_even(t, drop)
            IN IF Len(r) > float_bits
               THEN PyFloat(Tail(r), exp + drop + 1)
               ELSE PyFloat(r, exp + drop)

\* how often a is to be doubled to reach b, and b to be doubled for a to
\* lie below its double
RECURSIVE doublings_up(_, _)
doublings_up(a, b) == IF a >= b THEN 0 ELSE 1 + doublings_up(2 * a, b)
RECURSIVE doublings_down(_, _)
doublings_down(a, b) == IF a < 2 * b THEN 0 ELSE 1 + doublings_down(a, 2 * b)
RECURSIVE two_to(_)
two_to(k) == IF k = 0 THEN 1 ELSE 2 * two_to(k - 1)

\* 2^k modulo b
RECURSIVE two_to_mod(_, _)
two_to_mod(k, b) ==
    IF k = 0 THEN 1 % b
    ELSE LET half == two_to_mod(k \div 2, b)
         IN (((half * half) % b) * (IF k % 2 = 1 THEN 2 ELSE 1)) % b

\* long division of r by b, r < b: what remains after k bits below the
\* point, and the k-th of those bits
remainder_after(r, b, k) == (r * two_to_mod(k, b)) % b
quotient_bit(r, b, k) == IF 2 * remainder_after(r, b, k - 1) >= b THEN 1 ELSE 0

\* a / b for ints a >= 0 and b > 0: the double nearest to the quotient
truediv(a, b) ==
    IF a = 0 THEN float_zero
    ELSE LET doubled == doublings_up(a, b)
             halved == doublings_down(a, b)
             n == a * two_to(doubled)
             d == b * two_to(halved)
             below == float_bits - 1
             q == [i \in 1..float_bits |->
                      IF i = float_bits THEN 1
                      ELSE quotient_bit(n - d, d, float_bits - i)]
             rem == remainder_after(n - d, d, below)
             above == 2 * rem > d \/ (2 * rem = d /\ q[1] = 1)
             exp == halved - doubled - below
         IN IF above
            THEN to_float(bits_add(q, <<1>>), exp)
            ELSE PyFloat(q, exp)

\* x * n for a float x and an int n >= 0, which becomes a float first
float_times_int(x, n) == to_float(bits_times(x.mant, n), x.exp)

\* valid / total * 100 for the counts a history within the bounds gives,
\* worked out once
percentages ==
    [valid \in 0..(MaxValidations + MaxSummed), total \in 1..(MaxValidations + MaxSummed) |->
        float_times_int(truediv(valid, total), 100)]

\* str.lower() on the strings of the model: every name, place, value, word
\* and text among the inputs that has an upper-case letter is listed, every
\* other string handed to it is its own lower-case form.
lower(s) ==
    CASE s = "Library" -> "library"
      [] s = "LIBRARY" -> "library"
      [] s = "Sitting Room" -> "sitting room"
      [] s = "Dining Room" -> "dining room"
      [] s = "Nathan" -> "nathan"
      [] s = "Helena" -> "helena"
      [] s = "Poison" -> "poison"
      [] s = "Elias" -> "elias"
      [] s = "Arthur" -> "arthur"
      [] s = "No contradiction with known facts" -> "no contradiction with known facts"
      [] s = "Tonight" -> "tonight"
      [] s = "I" -> "i"
      [] s = "Was" -> "was"
      [] s = "The" -> "the"
      [] s = "Saw" -> "saw"
      [] s = "Last" -> "last"
      [] s = "Elias is found dead" -> "elias is found dead"
      [] s = "Day 1 evening" -> "day 1 evening"
      [] s = "Nathan and Arthur quarrel" -> "nathan and arthur quarrel"
      [] s = "Day 1 morning" -> "day 1 morning"
      [] s = "Cellar" -> "cellar"
      [] s = "Player" -> "player"
      [] s = "Where were you" -> "where were you"
      [] s = "I was in the cellar" -> "i was in the cellar"
      [] s = "I was in the library" -> "i was in the library"
      [] s = "at the LIBRARY" -> "at the library"
      [] s = "saw Arthur" -> "saw arthur"
      [] s = "saw Helena" -> "saw helena"
      [] s = "saw Nathan" -> "saw nathan"
      [] s = "the victim was Arthur" -> "the victim was arthur"
      [] s = "Dinner was served" -> "dinner was served"
      [] OTHER -> s

\* the elements of a list
Range(seq) == {seq[i] : i \in DOMAIN seq}

\* x in list
InList(x, seq) == \E i \in DOMAIN seq : seq[i] = x

(***************************************************************************)
(* WorldState                                                              *)
(***************************************************************************)
\* WorldState.time_periods
time_periods ==
    <<"early_morning", "morning", "noon", "afternoon", "evening",
      "late_night", "overnight">>

\* list.index(x): the first position of x, counted from 0
index(seq, x) == (CHOOSE i \in DOMAIN seq : seq[i] = x /\ \A j \in 1..(i-1) : seq[j] # x) - 1

Fact(key, value, category, is_public, witnesses) ==
    [key |-> key, value |-> value, category |-> category,
     is_public |-> is_public, witnesses |-> witnesses]

Event(event_id, description, timestamp, location, participants, witnesses) ==
    [event_id |-> event_id, description |-> description, timestamp |-> timestamp,
     location |-> location, participants |-> participants, witnesses |-> witnesses]

Relationship(character_a, character_b, relationship_type, description) ==
    [character_a |-> character_a, character_b |-> character_b,
     relationship_type |-> relationship_type, description |-> description]

TimeBlock(day, period) == [day |-> day, period |-> period]

NPCScheduleEntry(character, time_block, location, activity, with_characters, is_public, witnesses, notes) ==
    [character |-> character, time_block |-> time_block, location |-> location,
     activity |-> activity, with_characters |-> with_characters,
     is_public |-> is_public, witnesses |-> witnesses, notes |-> notes]

\* {}
EmptyDict == [x \in {} |-> x]

\* dict[key] = value
DictSet(d, k, v) == [x \in (DOMAIN d) \cup {k} |-> IF x = k THEN v ELSE d[x]]

\* __init__
WorldInit ==
    /\ facts = EmptyDict
    /\ fact_keys = <<>>
    /\ events = EmptyDict
    /\ event_ids = <<>>
    /\ relationships = <<>>
    /\ locations = {}
    /\ characters = {}
    /\ npc_schedules = EmptyDict

\* the keys of a dict after dict[key] = value: a new key comes last, a key
\* stored before keeps its place
keys_after(keys, key) == IF InList(key, keys) THEN keys ELSE Append(keys, key)

\* a slip: the witnesses of a fact stored under the key are kept
RECURSIVE append_new(_, _)
append_new(kept, more) ==
    IF more = <<>> THEN kept
    ELSE append_new(IF InList(Head(more), kept) THEN kept
                    ELSE Append(kept, Head(more)),
                    Tail(more))

facts_after_add_fact_merging(key, value, category, is_public, witnesses) ==
    DictSet(facts, key,
            Fact(key, value, category, is_public,
                 IF key \in DOMAIN facts
                 THEN append_new(facts[key].witnesses, witnesses)
                 ELSE witnesses))

\* the state add_fact leaves: facts[key] = Fact(...), `witnesses or []`
facts_after_add_fact(key, value, category, is_public, witnesses) ==
    DictSet(facts, key, Fact(key, value, category, is_public, witnesses))

\* get_fact
get_fact(key) ==
    IF key \in DOMAIN facts THEN Some(facts[key].value) ELSE None

\* get_event
get_event(event_id) ==
    IF event_id \in DOMAIN events THEN Some(events[event_id]) ELSE None

\* a slip: a non-public fact is known to everybody once it has a witness
character_knows_fact_any_witness(character, fact_key) ==
    IF fact_key \notin DOMAIN facts THEN FALSE
    ELSE facts[fact_key].is_public \/ facts[fact_key].witnesses # <<>>

character_knows_fact_public_only(character, fact_key) ==
    IF fact_key \notin DOMAIN facts THEN FALSE
    ELSE facts[fact_key].is_public

\* character_knows_fact
character_knows_fact(character, fact_key) ==
    IF fact_key \notin DOMAIN facts THEN FALSE
    ELSE IF facts[fact_key].is_public THEN TRUE
    ELSE IF InList(character, facts[fact_key].witnesses) THEN TRUE
    ELSE FALSE

\* a slip: the schedule list is set up on every call
lacks_schedule_always(character) == TRUE

\* the test of add_character: character not in self.npc_schedules
lacks_schedule(character) == character \notin DOMAIN npc_schedules

\* all_witnesses of add_schedule_entry: the explicit witnesses, then the
\* character, then each companion, none added twice
RECURSIVE append_missing(_, _)
append_missing(all_witnesses, companions) ==
    IF companions = <<>> THEN all_witnesses
    ELSE append_missing(
            IF InList(Head(companions), all_witnesses) THEN all_witnesses
            ELSE Append(all_witnesses, Head(companions)),
            Tail(companions))

\* a slip: the companions are left out
all_witnesses_without_companions(character, with_characters, witnesses) ==
    append_missing(witnesses, <<character>>)

all_witnesses_of(character, with_characters, witnesses) ==
    append_missing(witnesses, <<character>> \o with_characters)

\* sorted(entries, key=(day, time_periods.index(period))): a stable sort
sort_key_le(a, b) ==
    \/ a.time_block.day < b.time_block.day
    \/ /\ a.time_block.day = b.time_block.day
       /\ index(time_periods, a.time_block.period)
            <= index(time_periods, b.time_block.period)

RECURSIVE insert_sorted(_, _)
insert_sorted(sorted_entries, e) ==
    IF sorted_entries = <<>> THEN <<e>>
    ELSE IF sort_key_le(Head(sorted_entries), e)
         THEN <<Head(sorted_entries)>> \o insert_sorted(Tail(sorted_entries), e)
         ELSE <<e>> \o sorted_entries

RECURSIVE sorted(_)
sorted(entries) ==
    IF entries = <<>> THEN <<>>
    ELSE insert_sorted(sorted(SubSeq(entries, 1, Len(entries) - 1)),
                       entries[Len(entries)])

\* [e for e in entries if pred]
RECURSIVE filter_day(_, _)
filter_day(entries, day) ==
    IF entries = <<>> THEN <<>>
    ELSE (IF Head(entries).time_block.day = day THEN <<Head(entries)>> ELSE <<>>)
         \o filter_day(Tail(entries), day)

\* a slip: the entries are handed back in the order they were added
get_character_schedule_unsorted(character, day) ==
    IF character \notin DOMAIN npc_schedules THEN <<>>
    ELSE LET entries == npc_schedules[character]
         IN IF day # None THEN filter_day(entries, day[1]) ELSE entries

\* get_character_schedule(character, day); day is None or Some(d)
get_character_schedule(character, day) ==
    IF character \notin DOMAIN npc_schedules THEN <<>>
    ELSE LET entries == npc_schedules[character]
         IN sorted(IF day # None THEN filter_day(entries, day[1]) ELSE entries)

\* the first entry of the list with the period
RECURSIVE first_location(_, _)
first_location(entries, period) ==
    IF entries = <<>> THEN None
    ELSE IF Head(entries).time_block.period = period THEN Some(Head(entries).location)
    ELSE first_location(Tail(entries), period)

\* a slip: the entry added last for the period answers
get_character_location_last_added(character, day, period) ==
    LET entries == get_character_schedule(character, Some(day))
        matching == {i \in DOMAIN entries : entries[i].time_block.period = period}
    IN IF matching = {} THEN None
       ELSE Some(entries[CHOOSE i \in matching : \A j \in matching : j <= i].location)

\* a slip: the entries of every day are searched
get_character_location_any_day(character, day, period) ==
    first_location(get_character_schedule(character, None), period)

\* get_character_location_at_time
get_character_location_at_time(character, day, period) ==
    first_location(get_character_schedule(character, Some(day)), period)

verify_exact_match(character, claimed_location, day, period) ==
    LET actual_location == get_character_location_at_time(character, day, period)
    IN IF actual_location = None THEN <<TRUE, None>>
       ELSE <<actual_location[1] = claimed_location, actual_location>>

\* verify_character_claim_time_location: (is_valid, actual_location)
verify_character_claim_time_location(character, claimed_location, day, period) ==
    LET actual_location == get_character_location_at_time(character, day, period)
    IN IF actual_location = None THEN <<TRUE, None>>
       ELSE <<lower(actual_location[1]) = lower(claimed_location), actual_location>>

\* period.replace('_', ' ').title() on the canonical periods
title(period) ==
    CASE period = "early_morning" -> "Early Morning"
      [] period = "morning" -> "Morning"
      [] period = "noon" -> "Noon"
      [] period = "afternoon" -> "Afternoon"
      [] period = "evening" -> "Evening"
      [] period = "late_night" -> "Late Night"
      [] period = "overnight" -> "Overnight"

\* TimeBlock.__str__
TimeBlock_str(time_block) ==
    "Day " \o ToString(time_block.day) \o " - " \o title(time_block.period)

\* the test of get_events_with_character
involves(event, character) ==
    \/ InList(character, event.participants)
    \/ InList(character, event.witnesses)

\* list(dict.values())
values(dict, keys) == [i \in DOMAIN keys |-> dict[keys[i]]]

\* get_events_with_character
get_events_with_character(character) ==
    LET with_character(event) == involves(event, character)
    IN SelectSeq(values(events, event_ids), with_character)

\* [r for r in relationships if pred]
RECURSIVE filter_party(_, _)
filter_party(rels, character) ==
    IF rels = <<>> THEN <<>>
    ELSE (IF \/ Head(rels).character_a = character
             \/ Head(rels).character_b = character
          THEN <<Head(rels)>> ELSE <<>>)
         \o filter_party(Tail(rels), character)

\* get_relationships
get_relationships(character) == filter_party(relationships, character)

\* the items of the exported lists
exported_fact(f) == [key |-> f.key, value |-> f.value, category |-> f.category]
exported_event(e) ==
    [id |-> e.event_id, description |-> e.description, timestamp |-> e.timestamp,
     location |-> e.location]
exported_relationship(r, character) ==
    [with |-> IF r.character_a = character THEN r.character_b ELSE r.character_a,
     type |-> r.relationship_type, description |-> r.description]
exported_entry(entry) ==
    [time |-> TimeBlock_str(entry.time_block), location |-> entry.location,
     activity |-> entry.activity, with |-> entry.with_characters,
     notes |-> entry.notes]

\* a slip: every fact is exported, known to the character or not
fact_kept_always(character, fact) == TRUE

\* the test of the comprehension of export_character_knowledge over the
\* facts: character_knows_fact looks the key of the Fact up again
fact_kept(character, fact) == character_knows_fact(character, fact.key)

\* the lists of the exported knowledge from the Facts, Events, Relationships
\* and entries found
exported_facts(known_facts) == [i \in DOMAIN known_facts |-> exported_fact(known_facts[i])]
exported_events(known_events) ==
    [i \in DOMAIN known_events |-> exported_event(known_events[i])]
exported_relationships(character) ==
    [i \in DOMAIN get_relationships(character) |->
        exported_relationship(get_relationships(character)[i], character)]
exported_schedule(character) ==
    [i \in DOMAIN get_character_schedule(character, None) |->
        exported_entry(get_character_schedule(character, None)[i])]

\* export_character_knowledge for a world nothing writes to meanwhile
export_character_knowledge(character) ==
    LET kept(fact) == fact_kept(character, fact)
    IN [character |-> character,
        known_facts |-> exported_facts(SelectSeq(values(facts, fact_keys), kept)),
        known_events |-> exported_events(get_events_with_character(character)),
        relationships |-> exported_relationships(character),
        schedule |-> exported_schedule(character)]

\* export_character_knowledge item by item.  The comprehension over
\* facts.values() makes an iterator; each time it is asked for the next
\* Fact it fails when the dict has another size than it was made over
\* (RuntimeError, dictionary changed size during iteration) and otherwise
\* hands out the Fact now stored under the next key; character_knows_fact
\* then looks the key of the Fact taken up in the facts as they are by then.
\* get_events_with_character walks events.values() the same way.  A walk:
\* the size the iterator was made over, how many items it has handed out,
\* the Fact taken and not yet looked up, and the items kept.
walk_begun(keys) == [size |-> Len(keys), pos |-> 0, taken |-> None, known |-> <<>>]

\* the iterator finds the dict another size than it was made over
walk_raises(walk, keys) == Len(keys) # walk.size

\* the iterator has handed out every item
walk_exhausted(walk) == walk.pos = walk.size

\* the iterator hands out the item now stored under the next key
walk_next(walk, dict, keys) ==
    [walk EXCEPT !.taken = Some(dict[keys[walk.pos + 1]]), !.pos = @ + 1]

\* the item taken is kept or dropped
walk_kept(walk, keep) ==
    [walk EXCEPT !.known = IF keep THEN Append(@, walk.taken[1]) ELSE @,
                 !.taken = None]

\* the knowledge before anything is found
nothing_known(character) ==
    [character |-> character, known_facts |-> <<>>, known_events |-> <<>>,
     relationships |-> <<>>, schedule |-> <<>>]

(***************************************************************************)
(* FactChecker: claims and results                                         *)
(***************************************************************************)
Claim(claim_text, category, key, value) ==
    [claim_text |-> claim_text, category |-> category, key |-> key, value |-> value]

ValidationResult(is_valid, claim, reason, world_truth, is_lie, is_omission) ==
    [is_valid |-> is_valid, claim |-> claim, reason |-> reason,
     world_truth |-> world_truth, is_lie |-> is_lie, is_omission |-> is_omission]

(***************************************************************************)
(* extract_claims_from_statement.  The patterns are matched word by word,  *)
(* which is what re.finditer does on a statement whose words are \w+       *)
(* tokens separated by single spaces, none of them holding a keyword of a  *)
(* pattern inside a longer word.  A match is [len, group]: the number of   *)
(* words of group(0), and group(1); len = 0 is no match.                   *)
(***************************************************************************)
NoMatch == [len |-> 0, group |-> ""]

\* the i-th word under re.IGNORECASE; "" past the end of the statement
word(statement, i) == IF i \in DOMAIN statement THEN lower(statement[i]) ELSE ""

\* the text of words i..j
RECURSIVE join(_)
join(words) ==
    IF words = <<>> THEN ""
    ELSE IF Len(words) = 1 THEN words[1]
    ELSE words[1] \o " " \o join(Tail(words))

\* (?:I (?:was|am)|he (?:was|is)|she (?:was|is)|they (?:were|are))
subject_verb(a, b) ==
    \/ a = "i" /\ b \in {"was", "am"}
    \/ a = "he" /\ b \in {"was", "is"}
    \/ a = "she" /\ b \in {"was", "is"}
    \/ a = "they" /\ b \in {"were", "are"}

\* (?:the )?(\w+) at word j
location_tail(statement, j) ==
    IF word(statement, j) = "the" /\ (j + 1) \in DOMAIN statement
    THEN [len |-> 2, group |-> statement[j + 1]]
    ELSE IF j \in DOMAIN statement THEN [len |-> 1, group |-> statement[j]]
    ELSE NoMatch

\* words that are \d{1,2}(?::\d{2})?(?:am|pm), \d{1,2}(?::\d{2})? and am|pm
ClockWords == {"9pm", "10am"}
HourWords == {"9", "10"}
MeridiemWords == {"am", "pm"}

match_at(pattern, statement, i) ==
    LET w(k) == word(statement, k)
        tail3 == location_tail(statement, i + 3)
        tail2 == location_tail(statement, i + 2)
    IN CASE pattern = "location_1" ->
              IF subject_verb(w(i), w(i + 1)) /\ w(i + 2) \in {"in", "at"}
                 /\ tail3.len > 0
              THEN [len |-> 3 + tail3.len, group |-> tail3.group]
              ELSE NoMatch
         [] pattern = "location_2" ->
              IF w(i) \in {"saw", "found", "met"}
              THEN IF (i + 1) \in DOMAIN statement /\ w(i + 2) \in {"in", "at"}
                      /\ tail3.len > 0
                   THEN [len |-> 3 + tail3.len, group |-> tail3.group]
                   ELSE IF w(i + 1) \in {"in", "at"} /\ tail2.len > 0
                   THEN [len |-> 2 + tail2.len, group |-> tail2.group]
                   ELSE NoMatch
              ELSE NoMatch
         [] pattern = "time_1" ->
              IF w(i) = "at" /\ w(i + 1) \in ClockWords
              THEN [len |-> 2, group |-> statement[i + 1]]
              ELSE IF w(i) = "at" /\ w(i + 1) \in HourWords
                      /\ w(i + 2) \in MeridiemWords
              THEN [len |-> 3, group |-> join(SubSeq(statement, i + 1, i + 2))]
              ELSE NoMatch
         [] pattern = "time_2" ->
              IF \/ w(i) = "last" /\ w(i + 1) = "night"
                 \/ w(i) = "this" /\ w(i + 1) = "morning"
              THEN [len |-> 2, group |-> join(SubSeq(statement, i, i + 1))]
              ELSE IF w(i) \in {"yesterday", "tonight"}
              THEN [len |-> 1, group |-> statement[i]]
              ELSE NoMatch
         [] pattern = "person_1" ->
              IF w(i) \in {"saw", "met"} /\ (i + 1) \in DOMAIN statement
              THEN [len |-> 2, group |-> statement[i + 1]]
              ELSE IF /\ \/ w(i) = "spoke" /\ w(i + 1) = "with"
                         \/ w(i) = "talked" /\ w(i + 1) = "to"
                      /\ (i + 2) \in DOMAIN statement
              THEN [len |-> 3, group |-> statement[i + 2]]
              ELSE NoMatch
         [] pattern = "person_2" ->
              IF i \in DOMAIN statement /\ w(i + 1) \in {"was", "is"}
                 /\ w(i + 2) \in {"there", "here", "present"}
              THEN [len |-> 3, group |-> statement[i]]
              ELSE NoMatch

\* re.finditer: the matches left to right, none overlapping another; each is
\* [text, group] = (match.group(0), match.group(1))
RECURSIVE finditer_from(_, _, _)
finditer_from(pattern, statement, i) ==
    IF i > Len(statement) THEN <<>>
    ELSE LET m == match_at(pattern, statement, i)
         IN IF m.len > 0
            THEN <<[text |-> join(SubSeq(statement, i, i + m.len - 1)),
                    group |-> m.group]>>
                 \o finditer_from(pattern, statement, i + m.len)
            ELSE finditer_from(pattern, statement, i + 1)

finditer(pattern, statement) == finditer_from(pattern, statement, 1)

\* a slip: a person is kept whether registered or not
person_known_anybody(person) == TRUE

\* the test of extract_claims_from_statement on a person match:
\* person in self.world_state.characters
person_known(person) == person \in characters

\* the claims of one family from the matches of its two patterns
RECURSIVE claims_of(_, _, _, _)
claims_of(matches, category, key, known_only) ==
    IF matches = <<>> THEN <<>>
    ELSE (IF known_only /\ ~person_known(Head(matches).group) THEN <<>>
          ELSE <<Claim(Head(matches).text, category, key, PyStr(Head(matches).group))>>)
         \o claims_of(Tail(matches), category, key, known_only)

PatternNames ==
    {"location_1", "location_2", "time_1", "time_2", "person_1", "person_2"}

\* the matches of every pattern in a statement
all_matches(statement) == [p \in PatternNames |-> finditer(p, statement)]

\* extract_claims_from_statement, from the matches of the six patterns
claims_from_matches(m) ==
       claims_of(m["location_1"] \o m["location_2"],
                 "location", "mentioned_location", FALSE)
    \o claims_of(m["time_1"] \o m["time_2"], "time", "mentioned_time", FALSE)
    \o claims_of(m["person_1"] \o m["person_2"],
                 "person", "mentioned_person", TRUE)

\* the statements the model validates
StatementInputs ==
    {<<"I", "was", "in", "the", "library">>,
     <<"I", "saw", "Nathan", "last", "night">>,
     <<"I", "was", "in", "the", "cellar", "tonight">>,
     <<"nothing", "happened">>}

\* the matches of those statements, computed once
MatchTable == [statement \in StatementInputs |-> all_matches(statement)]

\* the matches of the six patterns in the statement
matches_of(statement) ==
    IF statement \in StatementInputs THEN MatchTable[statement]
    ELSE all_matches(statement)

\* extract_claims_from_statement for a world nothing writes to meanwhile
extract_claims_from_statement(statement) == claims_from_matches(matches_of(statement))

\* its first two loops, which look at the statement alone: the location and
\* the time claims
claims_without_persons(statement) ==
    LET m == matches_of(statement)
    IN claims_of(m["location_1"] \o m["location_2"],
                 "location", "mentioned_location", FALSE)
       \o claims_of(m["time_1"] \o m["time_2"], "time", "mentioned_time", FALSE)

\* the matches its third loop goes through
person_matches(statement) ==
    matches_of(statement)["person_1"] \o matches_of(statement)["person_2"]

\* the claim the third loop appends for a match
person_claim(match) ==
    Claim(match.text, "person", "mentioned_person", PyStr(match.group))

(***************************************************************************)
(* validate_claim, validate_statement, get_validation_summary: what their  *)
(* lines work out.                                                         *)
(***************************************************************************)
\* a slip: the stored and the claimed value compared as they are
dispatch_exact(claim) ==
    LET category == claim.category
        key == claim.key
        claimed_value == claim.value
    IN IF category = "location"
       THEN IF lower(str(claimed_value)) \in {lower(loc) : loc \in locations}
            THEN ValidationResult(TRUE, claim, "Location exists in world",
                                  Some(claimed_value), FALSE, FALSE)
            ELSE ValidationResult(FALSE, claim,
                    "Location '" \o str(claimed_value) \o "' does not exist in world state",
                    None, FALSE, FALSE)
       ELSE IF category = "person"
       THEN IF claimed_value.type = "str" /\ claimed_value.repr \in characters
            THEN ValidationResult(TRUE, claim, "Character exists in world",
                                  Some(claimed_value), FALSE, FALSE)
            ELSE ValidationResult(FALSE, claim,
                    "Character '" \o str(claimed_value) \o "' does not exist in world state",
                    None, FALSE, FALSE)
       ELSE IF key \in DOMAIN facts
       THEN LET world_value == get_fact(key)[1]
            IN IF str(world_value) = str(claimed_value)
               THEN ValidationResult(TRUE, claim, "Matches world state fact",
                                     Some(world_value), FALSE, FALSE)
               ELSE ValidationResult(FALSE, claim,
                       "Contradicts world state. Truth: " \o str(world_value),
                       Some(world_value), TRUE, FALSE)
       ELSE ValidationResult(TRUE, claim, "No contradiction with known facts",
                             None, FALSE, FALSE)

\* a slip: the location names are compared as they are
location_exists_exact(claimed_value) == str(claimed_value) \in locations

\* claimed_value.lower() in [loc.lower() for loc in locations]
location_exists(claimed_value) ==
    lower(str(claimed_value)) \in {lower(loc) : loc \in locations}

\* a slip: the character names are compared ignoring case
character_exists_ignoring_case(claimed_value) ==
    lower(str(claimed_value)) \in {lower(c) : c \in characters}

\* claimed_value in characters
character_exists(claimed_value) ==
    claimed_value.type = "str" /\ claimed_value.repr \in characters

\* a slip: a fact stored under the key of the claim is compared first, the
\* category looked at only when none is
dispatch_key_first(claim) ==
    LET key == claim.key
        claimed_value == claim.value
    IN IF key \in DOMAIN facts
       THEN LET world_value == get_fact(key)[1]
            IN IF lower(str(world_value)) = lower(str(claimed_value))
               THEN ValidationResult(TRUE, claim, "Matches world state fact",
                                     Some(world_value), FALSE, FALSE)
               ELSE ValidationResult(FALSE, claim,
                       "Contradicts world state. Truth: " \o str(world_value),
                       Some(world_value), TRUE, FALSE)
       ELSE IF claim.category = "location"
       THEN ValidationResult(location_exists(claimed_value), claim, "",
                             None, FALSE, FALSE)
       ELSE IF claim.category = "person"
       THEN ValidationResult(character_exists(claimed_value), claim, "",
                             None, FALSE, FALSE)
       ELSE ValidationResult(TRUE, claim, "No contradiction with known facts",
                             None, FALSE, FALSE)

\* the result validate_claim builds for an unmarked claim
dispatch(claim) ==
    LET category == claim.category
        key == claim.key
        claimed_value == claim.value
    IN IF category = "location"
       THEN IF location_exists(claimed_value)
            THEN ValidationResult(TRUE, claim, "Location exists in world",
                                  Some(claimed_value), FALSE, FALSE)
            ELSE ValidationResult(FALSE, claim,
                    "Location '" \o str(claimed_value) \o "' does not exist in world state",
                    None, FALSE, FALSE)
       ELSE IF category = "person"
       THEN IF character_exists(claimed_value)
            THEN ValidationResult(TRUE, claim, "Character exists in world",
                                  Some(claimed_value), FALSE, FALSE)
            ELSE ValidationResult(FALSE, claim,
                    "Character '" \o str(claimed_value) \o "' does not exist in world state",
                    None, FALSE, FALSE)
       ELSE IF key \in DOMAIN facts
       THEN LET world_value == get_fact(key)[1]
            IN IF lower(str(world_value)) = lower(str(claimed_value))
               THEN ValidationResult(TRUE, claim, "Matches world state fact",
                                     Some(world_value), FALSE, FALSE)
               ELSE ValidationResult(FALSE, claim,
                       "Contradicts world state. Truth: " \o str(world_value),
                       Some(world_value), TRUE, FALSE)
       ELSE ValidationResult(TRUE, claim, "No contradiction with known facts",
                             None, FALSE, FALSE)

\* a slip: the marks are looked at only after a contradiction was found
claim_marked_when_sound(claim, is_intentional_lie, is_intentional_omission) ==
    (is_intentional_lie \/ is_intentional_omission) /\ dispatch(claim).is_valid

\* the tests validate_claim begins with: the claim is intentional
claim_marked(claim, is_intentional_lie, is_intentional_omission) ==
    is_intentional_lie \/ is_intentional_omission

\* the result of a claim that is: that of a lie when both marks are set
marked_result(claim, is_intentional_lie) ==
    IF is_intentional_lie
    THEN ValidationResult(TRUE, claim, "Intentional lie by character", None, TRUE, FALSE)
    ELSE ValidationResult(TRUE, claim, "Intentional omission by character",
                          None, FALSE, TRUE)

\* a slip: the results of marked claims are logged like any other
history_after_marked_logged(history, result) == Append(history, result)

\* the history a marked claim leaves: validate_claim has returned before
\* its append
history_after_marked(history, result) == history

\* a slip: the branch for a key no fact is stored under returns at once
history_appended_known_only(history, result) ==
    IF result.reason = "No contradiction with known facts" THEN history
    ELSE Append(history, result)

\* a slip: the results already recorded are worked out again against the
\* world as it now is
history_appended_rechecked(history, result) ==
    Append([i \in DOMAIN history |-> dispatch(history[i].claim)], result)

\* self.validation_history.append(result)
history_appended(history, result) == Append(history, result)

\* a slip: every invalid result fails the statement, a lie or not
all_valid_any_invalid(all_valid, result) == IF ~result.is_valid THEN FALSE ELSE all_valid

\* all_valid after a pass of the loop of validate_statement
all_valid_after(all_valid, result) ==
    IF ~result.is_valid /\ ~result.is_lie THEN FALSE ELSE all_valid

\* len([r for r in history if pred(r)])
count_valid(history) == Cardinality({i \in DOMAIN history : history[i].is_valid})
count_lies(history) == Cardinality({i \in DOMAIN history : history[i].is_lie})
count_omissions(history) == Cardinality({i \in DOMAIN history : history[i].is_omission})

\* get_validation_summary reads the history four times, each by a pass of
\* its own, and appends may fall between the passes.  A frame holds what the
\* passes so far counted: total, valid, lies.

\* a slip: the rate is left a share of one, not a percentage
get_validation_summary_share(frame, history) ==
    [total_validations |-> frame.total,
     valid_claims |-> frame.valid,
     invalid_claims |-> frame.total - frame.valid,
     intentional_lies |-> frame.lies,
     omissions |-> count_omissions(history),
     accuracy_rate |-> IF frame.total > 0
                       THEN truediv(frame.valid, frame.total)
                       ELSE PyInt(0)]

\* get_validation_summary from its last pass on: the omissions are counted
\* over the history as it is now and the summary is built from the four
\* counts; accuracy_rate is the float (valid / total) * 100, the quotient
\* rounded and then the product, or the int 0
get_validation_summary(frame, history) ==
    [total_validations |-> frame.total,
     valid_claims |-> frame.valid,
     invalid_claims |-> frame.total - frame.valid,
     intentional_lies |-> frame.lies,
     omissions |-> count_omissions(history),
     accuracy_rate |-> IF frame.total > 0
                       THEN percentages[frame.valid, frame.total]
                       ELSE PyInt(0)]

(***************************************************************************)
(* NPCAgent.  An agent is the record of the attributes the operations      *)
(* below read or write; personality, background, goals, fears, traits and  *)
(* relationships only enter the prompt text and are left out, as is the    *)
(* timestamp of a memory entry and of a conversation turn, a reading of    *)
(* the wall clock no operation looks at again.  A secret is, like a        *)
(* statement, the sequence of its words.                                   *)
(***************************************************************************)
MemoryEntry(type, content, context, emotional_impact) ==
    [type |-> type, content |-> content, context |-> context,
     emotional_impact |-> emotional_impact]

\* NPCAgent.__init__
NPCAgent(name, secrets, current_location, emotional_state) ==
    [name |-> name,
     secrets |-> secrets,
     current_location |-> current_location,
     emotional_state |-> emotional_state,
     memory |-> <<>>,
     conversation_history |-> <<>>,
     lies_told |-> <<>>,
     omissions_made |-> <<>>,
     known_facts |-> EmptyDict,
     witnessed_events |-> <<>>]

\* a slip: every memory is filed as a lie
filed_under_lies(memory_type) == "lies_told"

\* the list add_memory files the entry in beside memory: lies_told,
\* omissions_made or none
filed_under(memory_type) ==
    IF memory_type = "lie" THEN "lies_told"
    ELSE IF memory_type = "omission" THEN "omissions_made"
    ELSE ""

\* the turn add_conversation_turn appends and the memory it adds for it
turn_of(speaker, message) == [speaker |-> speaker, message |-> message]
memory_of_turn(turn) ==
    MemoryEntry("conversation", turn.speaker \o ": " \o turn.message,
                [speaker |-> turn.speaker], 0)

\* the memory update_emotional_state adds, its context read from the
\* attribute
memory_of_emotion(agent, new_state) ==
    MemoryEntry("observation", "Emotional state changed to: " \o new_state,
                [previous_state |-> agent.emotional_state], 0)

\* the memory set_location adds
memory_of_move(old_location, location) ==
    MemoryEntry("observation", "Moved from " \o old_location \o " to " \o location,
                [from |-> old_location, to |-> location], 0)

(***************************************************************************)
(* IntentionAnalyzer.analyze_for_deception.  str.split() gives the words   *)
(* of a text; the world handed in is not looked at.                        *)
(***************************************************************************)
lower_words(words) == {lower(words[i]) : i \in DOMAIN words}

\* likely_omissions: one flag for each secret sharing a word with the
\* statement, in the order of the secrets
RECURSIVE omission_flags(_, _)
omission_flags(statement, secrets) ==
    IF secrets = <<>> THEN <<>>
    ELSE (IF lower_words(Head(secrets)) \cap lower_words(statement) # {}
          THEN <<"Potential omission related to: " \o join(Head(secrets))>>
          ELSE <<>>)
         \o omission_flags(statement, Tail(secrets))

\* a slip: every secret is flagged, whatever the statement says
analyze_for_deception_flags_all(statement, character) ==
    [likely_lies |-> <<>>,
     likely_omissions |->
        [i \in DOMAIN character.secrets |->
            "Potential omission related to: " \o join(character.secrets[i])]]

\* analyze_for_deception
analyze_for_deception(statement, character) ==
    [likely_lies |-> <<>>,
     likely_omissions |-> omission_flags(statement, character.secrets)]

(***************************************************************************)
(* Calls.  The program takes no lock, so a call of one thread may be       *)
(* overtaken by calls of others between any two of its lines.  A call is   *)
(* modelled line by line: every line that reads or writes what the         *)
(* threads share is a step of its own, together with the local work        *)
(* around it.  A frame is the locals of a call under way: who makes it     *)
(* (caller), the operation called (op) and its arguments, the line to be   *)
(* run next (pc, "function:line"), the lines to come back to when the      *)
(* functions entered return (stack), and the locals of the functions.      *)
(* Beside them a frame notes what the call found on entry, whether it has  *)
(* had the checker to itself (alone) and, for converse, whether no fact    *)
(* was stored while it was under way (quiet).  A call that runs one line,  *)
(* or only reads what is never changed or taken away again and so returns  *)
(* what one look at the world gives, is a single step.  call and ret       *)
(* record the step taken: the operation and what it returned, Raised(e)    *)
(* for an exception leaving the call, or the operation followed by a colon *)
(* and the line run for a call that goes on.                               *)
(***************************************************************************)
Call(op, args) == [op |-> op, args |-> args]
Returned(v) == [raised |-> "", value |-> v]
Raised(e) == [raised |-> e, value |-> None]

\* what a call finds on entry
found_now ==
    [facts |-> facts, fact_keys |-> fact_keys, events |-> events,
     event_ids |-> event_ids, relationships |-> relationships,
     locations |-> locations, characters |-> characters,
     npc_schedules |-> npc_schedules, validation_history |-> validation_history,
     agents |-> agents, npcs |-> npcs]

\* the world a call found
world_of(found) ==
    <<found.facts, found.fact_keys, found.events, found.event_ids,
      found.relationships, found.locations, found.characters, found.npc_schedules>>

\* the operations that write to the validation history
CheckerOps == {"validate_claim", "validate_statement", "converse"}

\* the frame of a call on entry
entered(caller, op, args) ==
    [caller |-> caller, op |-> op, args |-> args, pc |-> "", stack |-> <<>>,
     found |-> found_now,
     alone |-> \A c \in DOMAIN calls : calls[c].op \notin CheckerOps,
     quiet |-> TRUE,
     character |-> "", entry |-> None, people |-> <<>>,
     npc |-> "", memory |-> None, turn |-> None, event_id |-> "",
     walk |-> None, knowledge |-> None, to_write |-> <<>>, to_witness |-> <<>>,
     response |-> <<>>, likely |-> None, tracked |-> 0,
     statement |-> <<>>, marked_lies |-> <<>>, marked_omissions |-> <<>>,
     matches |-> <<>>, claims |-> <<>>, results |-> <<>>, all_valid |-> TRUE,
     claim |-> None, is_lie |-> FALSE, is_omission |-> FALSE,
     places |-> None, pending |-> None,
     total |-> 0, valid |-> 0, lies |-> 0, size |-> 0]

\* the other calls under way after a step of the call of the frame: a call
\* of the checker that is entered ends their having it to themselves, a
\* fact that is stored their quiet
beside(frame) ==
    [c \in DOMAIN calls \ {frame.caller} |->
        IF frame.caller \notin DOMAIN calls /\ frame.op \in CheckerOps
        THEN [calls[c] EXCEPT !.alone = FALSE]
        ELSE IF frame.op = "add_fact" /\ calls[c].op = "converse"
        THEN [calls[c] EXCEPT !.quiet = FALSE]
        ELSE calls[c]]

\* the call has run the line frame.pc and goes on with the frame next
goes_on(frame, next) ==
    /\ calls' = [c \in DOMAIN calls \cup {frame.caller} |->
                    IF c = frame.caller THEN next ELSE beside(frame)[c]]
    /\ call' = Call(frame.op \o ":", [caller |-> frame.caller, line |-> frame.pc])
    /\ ret' = Returned(None)
    /\ ended' = None

\* the call ends, returning or raising
is_over(frame, outcome) ==
    /\ calls' = beside(frame)
    /\ call' = Call(frame.op, frame.args)
    /\ ret' = outcome
    /\ ended' = Some(frame)

\* the function the call is in returns: to the line its caller goes on
\* with, or the call returns value
comes_back(frame, next, value) ==
    IF next.stack = <<>>
    THEN is_over(next, Returned(value))
    ELSE goes_on(frame, [next EXCEPT !.pc = Head(next.stack),
                                     !.stack = Tail(next.stack)])

checker_same == UNCHANGED <<validation_history, marks>>
engine_same == UNCHANGED <<agents, npcs, fact_checking>>
nothing_written ==
    /\ UNCHANGED world
    /\ checker_same
    /\ engine_same

\* the fact the add_fact that just returned overwrote
replaced ==
    IF call.op # "add_fact" THEN None
    ELSE IF call.args.key \in DOMAIN ended[1].found.facts
    THEN Some(ended[1].found.facts[call.args.key])
    ELSE None

(***************************************************************************)
(* WorldState.                                                             *)
(***************************************************************************)
\* add_fact: one store into the dict
add_fact(caller, key, value, category, is_public, witnesses) ==
    /\ caller \notin DOMAIN calls
    /\ facts' = facts_after_add_fact(key, value, category, is_public, witnesses)
    /\ fact_keys' = keys_after(fact_keys, key)
    /\ is_over(entered(caller, "add_fact",
                       [key |-> key, value |-> value, category |-> category,
                        is_public |-> is_public, witnesses |-> witnesses]),
               Returned(None))
    /\ UNCHANGED <<events, event_ids, relationships, locations, characters,
                   npc_schedules>>
    /\ checker_same
    /\ engine_same

\* add_location: one add to the set
add_location(caller, location) ==
    /\ caller \notin DOMAIN calls
    /\ locations' = locations \cup {location}
    /\ is_over(entered(caller, "add_location", [location |-> location]),
               Returned(None))
    /\ UNCHANGED <<facts, fact_keys, events, event_ids, relationships, characters,
                   npc_schedules>>
    /\ checker_same
    /\ engine_same

\* add_character line by line: the add to the set (237), the test for a
\* schedule list (238), the store of an empty one (239)
Run_add_character(frame) ==
    /\ UNCHANGED <<facts, fact_keys, events, event_ids, relationships, locations>>
    /\ checker_same
    /\ engine_same
    /\ IF frame.pc = "add_character:237"
       THEN /\ characters' = characters \cup {frame.character}
            /\ UNCHANGED npc_schedules
            /\ goes_on(frame, [frame EXCEPT !.pc = "add_character:238"])
       ELSE IF frame.pc = "add_character:238"
       THEN /\ UNCHANGED <<characters, npc_schedules>>
            /\ IF lacks_schedule(frame.character)
               THEN goes_on(frame, [frame EXCEPT !.pc = "add_character:239"])
               ELSE comes_back(frame, frame, None)
       ELSE /\ npc_schedules' = DictSet(npc_schedules, frame.character, <<>>)
            /\ UNCHANGED characters
            /\ comes_back(frame, frame, None)

\* add_character is called
Enter_add_character(caller, character) ==
    /\ caller \notin DOMAIN calls
    /\ Run_add_character([entered(caller, "add_character", [character |-> character])
                             EXCEPT !.character = character,
                                    !.pc = "add_character:237"])

schedule_args(character, day, period, location, activity, with_characters, is_public, witnesses, notes) ==
    [character |-> character, day |-> day, period |-> period,
     location |-> location, activity |-> activity,
     with_characters |-> with_characters, is_public |-> is_public,
     witnesses |-> witnesses, notes |-> notes]

\* the frame of add_schedule_entry on entry: the entry it is to append is
\* built from the arguments
schedule_entered(caller, character, day, period, location, activity, with_characters, is_public, witnesses, notes) ==
    [entered(caller, "add_schedule_entry",
             schedule_args(character, day, period, location, activity,
                           with_characters, is_public, witnesses, notes))
        EXCEPT !.character = character,
               !.entry = Some(NPCScheduleEntry(character, TimeBlock(day, period),
                                 location, activity, with_characters, is_public,
                                 all_witnesses_of(character, with_characters, witnesses),
                                 notes)),
               !.pc = "add_character:237",
               !.stack = <<"add_schedule_entry:295">>]

\* a slip: the character is registered before the period is checked
Enter_add_schedule_entry_registers_first(caller, character, day, period, location, activity, with_characters, is_public, witnesses, notes) ==
    /\ caller \notin DOMAIN calls
    /\ LET frame == schedule_entered(caller, character, day, period, location,
                        activity, with_characters, is_public, witnesses, notes)
       IN IF ~InList(period, time_periods)
          THEN /\ characters' = characters \cup {character}
               /\ npc_schedules' = IF lacks_schedule(character)
                                   THEN DictSet(npc_schedules, character, <<>>)
                                   ELSE npc_schedules
               /\ is_over(frame, Raised("ValueError"))
               /\ UNCHANGED <<facts, fact_keys, events, event_ids, relationships,
                              locations>>
               /\ checker_same
               /\ engine_same
          ELSE Run_add_character(frame)

\* add_schedule_entry is called: a period that is none of time_periods
\* raises (267-268), for any other add_character is entered (270)
Enter_add_schedule_entry(caller, character, day, period, location, activity, with_characters, is_public, witnesses, notes) ==
    /\ caller \notin DOMAIN calls
    /\ LET frame == schedule_entered(caller, character, day, period, location,
                        activity, with_characters, is_public, witnesses, notes)
       IN IF ~InList(period, time_periods)
          THEN /\ is_over(frame, Raised("ValueError"))
               /\ UNCHANGED world
               /\ checker_same
               /\ engine_same
          ELSE Run_add_character(frame)

\* add_schedule_entry after add_character has returned: the entry is
\* appended to the list of the character (295)
Run_add_schedule_entry(frame) ==
    /\ npc_schedules' = [npc_schedules EXCEPT
                            ![frame.character] = Append(@, frame.entry[1])]
    /\ comes_back(frame, frame, None)
    /\ UNCHANGED <<facts, fact_keys, events, event_ids, relationships, locations,
                   characters>>
    /\ checker_same
    /\ engine_same

\* add_event after its store: the location is added (178), then the
\* participants one by one (180), then the witnesses (182); people holds
\* those yet to be added, the witnesses last
event_goes_on(frame, next) ==
    IF next.people = <<>>
    THEN comes_back(frame, next, None)
    ELSE goes_on(frame, [next EXCEPT
                            !.pc = IF Len(next.people) > Len(next.args.witnesses)
                                   THEN "add_event:180" ELSE "add_event:182"])

Run_add_event(frame) ==
    /\ UNCHANGED <<facts, fact_keys, events, event_ids, relationships, npc_schedules>>
    /\ checker_same
    /\ engine_same
    /\ IF frame.pc = "add_event:178"
       THEN /\ locations' = locations \cup {frame.args.location}
            /\ UNCHANGED characters
            /\ event_goes_on(frame, frame)
       ELSE /\ characters' = characters \cup {Head(frame.people)}
            /\ UNCHANGED locations
            /\ event_goes_on(frame, [frame EXCEPT !.people = Tail(@)])

\* add_event is called (details, sequence_order and caused_by at their
\* defaults): the Event is stored (165)
Enter_add_event(caller, event_id, description, timestamp, location, participants, witnesses) ==
    /\ caller \notin DOMAIN calls
    /\ events' = DictSet(events, event_id,
                         Event(event_id, description, timestamp, location,
                               participants, witnesses))
    /\ event_ids' = keys_after(event_ids, event_id)
    /\ LET frame == [entered(caller, "add_event",
                             [event_id |-> event_id, description |-> description,
                              timestamp |-> timestamp, location |-> location,
                              participants |-> participants, witnesses |-> witnesses])
                        EXCEPT !.pc = "add_event:165",
                               !.people = participants \o witnesses]
       IN goes_on(frame, [frame EXCEPT !.pc = "add_event:178"])
    /\ UNCHANGED <<facts, fact_keys, relationships, locations, characters,
                   npc_schedules>>
    /\ checker_same
    /\ engine_same

\* add_relationship after its append: char_a is added (213), then char_b
\* (214)
Run_add_relationship(frame) ==
    /\ UNCHANGED <<facts, fact_keys, events, event_ids, relationships, locations,
                   npc_schedules>>
    /\ checker_same
    /\ engine_same
    /\ IF frame.pc = "add_relationship:213"
       THEN /\ characters' = characters \cup {frame.args.char_a}
            /\ goes_on(frame, [frame EXCEPT !.pc = "add_relationship:214"])
       ELSE /\ characters' = characters \cup {frame.args.char_b}
            /\ comes_back(frame, frame, None)

\* add_relationship is called (strength and is_public at their defaults):
\* the Relationship is appended (203)
Enter_add_relationship(caller, char_a, char_b, rel_type, description) ==
    /\ caller \notin DOMAIN calls
    /\ relationships' = Append(relationships,
                               Relationship(char_a, char_b, rel_type, description))
    /\ LET frame == [entered(caller, "add_relationship",
                             [char_a |-> char_a, char_b |-> char_b,
                              rel_type |-> rel_type, description |-> description])
                        EXCEPT !.pc = "add_relationship:203"]
       IN goes_on(frame, [frame EXCEPT !.pc = "add_relationship:213"])
    /\ UNCHANGED <<facts, fact_keys, events, event_ids, locations, characters,
                   npc_schedules>>
    /\ checker_same
    /\ engine_same

\* a call that only looks: it returns what the world gives at one moment
looked(caller, op, args, value) ==
    /\ caller \notin DOMAIN calls
    /\ is_over(entered(caller, op, args), Returned(value))
    /\ nothing_written

\* character_knows_fact: one lookup in the dict; the Fact found is never
\* changed
Call_character_knows_fact(caller, character, fact_key) ==
    looked(caller, "character_knows_fact",
           [character |-> character, fact_key |-> fact_key],
           character_knows_fact(character, fact_key))

\* get_character_schedule: the list of the character only grows, the filter
\* walks it to the end it has by then and sorted copies it
Call_get_character_schedule(caller, character, day) ==
    looked(caller, "get_character_schedule", [character |-> character, day |-> day],
           get_character_schedule(character, day))

\* get_character_location_at_time: get_character_schedule, then a walk over
\* the copy
Call_get_character_location_at_time(caller, character, day, period) ==
    looked(caller, "get_character_location_at_time",
           [character |-> character, day |-> day, period |-> period],
           get_character_location_at_time(character, day, period))

\* get_fact: one lookup in the dict
Call_get_fact(caller, key) == looked(caller, "get_fact", [key |-> key], get_fact(key))

\* get_event: one lookup in the dict
Call_get_event(caller, event_id) ==
    looked(caller, "get_event", [event_id |-> event_id], get_event(event_id))

\* verify_character_claim_time_location: get_character_location_at_time,
\* then a comparison of what it returned
Call_verify_character_claim_time_location(caller, character, claimed_location, day, period) ==
    looked(caller, "verify_character_claim_time_location",
           [character |-> character, claimed_location |-> claimed_location,
            day |-> day, period |-> period],
           verify_character_claim_time_location(character, claimed_location,
                                                day, period))

\* export_character_knowledge line by line: the iterator over the facts is
\* made (382), asked for the next Fact (383) and the Fact taken looked up
\* (384); get_events_with_character makes its iterator (194) and asks it for
\* the next Event (195); get_relationships walks the list, which only grows,
\* to the end it has by then (218); get_character_schedule (299) and the
\* result is built
Run_export_character_knowledge(frame) ==
    /\ nothing_written
    /\ IF frame.pc = "export_character_knowledge:382"
       THEN goes_on(frame, [frame EXCEPT !.pc = "export_character_knowledge:383",
                                         !.walk = Some(walk_begun(fact_keys))])
       ELSE IF frame.pc = "export_character_knowledge:383"
       THEN IF walk_raises(frame.walk[1], fact_keys)
            THEN is_over(frame, Raised("RuntimeError"))
            ELSE IF walk_exhausted(frame.walk[1])
            THEN goes_on(frame,
                    [frame EXCEPT
                        !.pc = "get_events_with_character:194",
                        !.knowledge =
                            Some([nothing_known(frame.character) EXCEPT
                                     !.known_facts = exported_facts(frame.walk[1].known)]),
                        !.walk = None])
            ELSE goes_on(frame,
                    [frame EXCEPT !.pc = "export_character_knowledge:384",
                                  !.walk = Some(walk_next(frame.walk[1], facts, fact_keys))])
       ELSE IF frame.pc = "export_character_knowledge:384"
       THEN goes_on(frame,
                [frame EXCEPT
                    !.pc = "export_character_knowledge:383",
                    !.walk = Some(walk_kept(frame.walk[1],
                                            fact_kept(frame.character,
                                                      frame.walk[1].taken[1])))])
       ELSE IF frame.pc = "get_events_with_character:194"
       THEN goes_on(frame, [frame EXCEPT !.pc = "get_events_with_character:195",
                                         !.walk = Some(walk_begun(event_ids))])
       ELSE IF frame.pc = "get_events_with_character:195"
       THEN IF walk_raises(frame.walk[1], event_ids)
            THEN is_over(frame, Raised("RuntimeError"))
            ELSE IF walk_exhausted(frame.walk[1])
            THEN goes_on(frame,
                    [frame EXCEPT
                        !.pc = "get_relationships:218",
                        !.knowledge =
                            Some([frame.knowledge[1] EXCEPT
                                     !.known_events = exported_events(frame.walk[1].known)]),
                        !.walk = None])
            ELSE LET taken == walk_next(frame.walk[1], events, event_ids)
                 IN goes_on(frame,
                        [frame EXCEPT
                            !.walk = Some(walk_kept(taken,
                                                    involves(taken.taken[1],
                                                             frame.character)))])
       ELSE IF frame.pc = "get_relationships:218"
       THEN goes_on(frame,
                [frame EXCEPT
                    !.pc = "get_character_schedule:299",
                    !.knowledge =
                        Some([frame.knowledge[1] EXCEPT
                                 !.relationships = exported_relationships(frame.character)])])
       ELSE LET knowledge == [frame.knowledge[1] EXCEPT
                                 !.schedule = exported_schedule(frame.character)]
            IN comes_back(frame,
                   [frame EXCEPT
                       !.knowledge = Some(knowledge),
                       !.to_write = knowledge.known_facts,
                       !.to_witness = [i \in DOMAIN knowledge.known_events |->
                                          knowledge.known_events[i].id]],
                   knowledge)

\* export_character_knowledge is called
Enter_export_character_knowledge(caller, character) ==
    /\ caller \notin DOMAIN calls
    /\ Run_export_character_knowledge(
           [entered(caller, "export_character_knowledge", [character |-> character])
               EXCEPT !.character = character,
                      !.pc = "export_character_knowledge:382"])

(***************************************************************************)
(* FactChecker.  marks counts the validations that carried a mark: lies    *)
(* those marked as intentional lie, omissions those marked as intentional  *)
(* omission only (validate_claim treats a claim marked both ways as a      *)
(* lie).                                                                   *)
(***************************************************************************)
validations_done == Len(validation_history) + marks.lies + marks.omissions

marks_after(is_intentional_lie, is_intentional_omission) ==
    [lies |-> marks.lies + (IF is_intentional_lie THEN 1 ELSE 0),
     omissions |-> marks.omissions
         + (IF ~is_intentional_lie /\ is_intentional_omission THEN 1 ELSE 0)]

\* the claim the loop of validate_statement validates next
next_claim(frame) == frame.claims[Len(frame.results) + 1]

\* the loop of validate_statement goes on: validate_claim is called for the
\* next claim with the marks its text carries (256-259), or the loop is over
\* and validate_statement returns (265)
statement_goes_on(frame, next) ==
    IF Len(next.results) < Len(next.claims)
    THEN goes_on(frame,
            [next EXCEPT
                !.pc = "validate_claim:138",
                !.claim = Some(next_claim(next)),
                !.is_lie = InList(next_claim(next).claim_text, next.marked_lies),
                !.is_omission = InList(next_claim(next).claim_text,
                                       next.marked_omissions)])
    ELSE comes_back(frame, next, <<next.all_valid, next.results>>)

\* extract_claims_from_statement goes on with its next person match (111),
\* or returns and the loop of validate_statement begins
extraction_goes_on(frame, next) ==
    IF next.matches # <<>>
    THEN goes_on(frame, [next EXCEPT !.pc = "extract_claims_from_statement:111"])
    ELSE statement_goes_on(frame, next)

\* a slip: the result is put in front of the results
loop_taken_in_front(frame, result) ==
    [frame EXCEPT !.results = <<result>> \o @,
                  !.all_valid = all_valid_after(@, result)]

\* the rest of a pass of the loop of validate_statement: the result is
\* appended and all_valid lowered (260-263)
loop_taken(frame, result) ==
    [frame EXCEPT !.results = Append(@, result),
                  !.all_valid = all_valid_after(@, result)]

\* validate_claim returns result: to who called it, or to the loop of
\* validate_statement
claim_returns(frame, next, result) ==
    IF next.op = "validate_claim"
    THEN is_over(next, Returned(result))
    ELSE statement_goes_on(frame, loop_taken(next, result))

\* validate_claim line by line.  On entry (138) a marked claim is answered
\* at once; for a location claim the iterator over the set of locations is
\* made (163), for a person claim the set of characters is looked into
\* (180), for any other the facts are asked for the key (196).  The walk
\* over the locations (163) fails when the set has another size than the
\* iterator was made over (RuntimeError, Set changed size during
\* iteration).  A key found is looked up (197).  The result is appended to
\* the history (223).
Run_validate_claim(frame) ==
    /\ UNCHANGED world
    /\ engine_same
    /\ LET claim == frame.claim[1]
       IN IF frame.pc = "validate_claim:138"
          THEN IF claim_marked(claim, frame.is_lie, frame.is_omission)
               THEN LET result == marked_result(claim, frame.is_lie)
                    IN /\ validation_history' =
                              history_after_marked(validation_history, result)
                       /\ marks' = marks_after(frame.is_lie, frame.is_omission)
                       /\ claim_returns(frame, frame, result)
               ELSE /\ checker_same
                    /\ IF claim.category = "location"
                       THEN goes_on(frame, [frame EXCEPT !.pc = "validate_claim:163",
                                                         !.places = Some(locations)])
                       ELSE IF claim.category = "person" \/ claim.key \notin DOMAIN facts
                       THEN goes_on(frame, [frame EXCEPT !.pc = "validate_claim:223",
                                                         !.pending = Some(dispatch(claim))])
                       ELSE goes_on(frame, [frame EXCEPT !.pc = "validate_claim:197"])
          ELSE IF frame.pc = "validate_claim:163"
          THEN /\ checker_same
               /\ IF frame.places[1] # locations
                  THEN is_over(frame, Raised("RuntimeError"))
                  ELSE goes_on(frame, [frame EXCEPT !.pc = "validate_claim:223",
                                                    !.places = None,
                                                    !.pending = Some(dispatch(claim))])
          ELSE IF frame.pc = "validate_claim:197"
          THEN /\ checker_same
               /\ goes_on(frame, [frame EXCEPT !.pc = "validate_claim:223",
                                               !.pending = Some(dispatch(claim))])
          ELSE /\ validation_history' =
                      history_appended(validation_history, frame.pending[1])
               /\ UNCHANGED marks
               /\ claim_returns(frame, [frame EXCEPT !.pending = None],
                                frame.pending[1])

\* validate_claim is called
Enter_validate_claim(caller, claim, is_intentional_lie, is_intentional_omission) ==
    /\ caller \notin DOMAIN calls
    /\ Run_validate_claim(
           [entered(caller, "validate_claim",
                    [claim |-> claim, is_intentional_lie |-> is_intentional_lie,
                     is_intentional_omission |-> is_intentional_omission])
               EXCEPT !.pc = "validate_claim:138",
                      !.claim = Some(claim),
                      !.is_lie = is_intentional_lie,
                      !.is_omission = is_intentional_omission])

\* the locals of validate_statement before its loop: the claims the first
\* two loops of extract_claims_from_statement make of the statement, and the
\* person matches its third loop is to go through
statement_entered(frame, statement, marked_lies, marked_omissions) ==
    [frame EXCEPT !.statement = statement,
                  !.marked_lies = marked_lies,
                  !.marked_omissions = marked_omissions,
                  !.claims = claims_without_persons(statement),
                  !.matches = person_matches(statement),
                  !.results = <<>>,
                  !.all_valid = TRUE]

\* validate_statement is called
Enter_validate_statement(caller, statement, marked_lies, marked_omissions) ==
    /\ caller \notin DOMAIN calls
    /\ nothing_written
    /\ LET frame == [entered(caller, "validate_statement",
                             [statement |-> statement, marked_lies |-> marked_lies,
                              marked_omissions |-> marked_omissions])
                        EXCEPT !.pc = "validate_statement:249"]
       IN extraction_goes_on(frame, statement_entered(frame, statement, marked_lies,
                                                      marked_omissions))

\* the third loop of extract_claims_from_statement takes its next match:
\* the person is looked for among the characters as they are by now (111)
Run_extract_claims_from_statement(frame) ==
    /\ nothing_written
    /\ LET match == Head(frame.matches)
       IN extraction_goes_on(frame,
              [frame EXCEPT
                  !.matches = Tail(@),
                  !.claims = IF person_known(match.group)
                             THEN Append(@, person_claim(match)) ELSE @])

\* get_validation_summary after its first read: the valid results are
\* counted (276), the lies (277), the omissions (278) and the summary is
\* returned; each pass walks the history, which only grows, to the end it
\* has by then
Run_get_validation_summary(frame) ==
    /\ nothing_written
    /\ IF frame.pc = "get_validation_summary:276"
       THEN goes_on(frame, [frame EXCEPT !.pc = "get_validation_summary:277",
                                         !.valid = count_valid(validation_history)])
       ELSE IF frame.pc = "get_validation_summary:277"
       THEN goes_on(frame, [frame EXCEPT !.pc = "get_validation_summary:278",
                                         !.lies = count_lies(validation_history)])
       ELSE is_over(frame, Returned(get_validation_summary(frame, validation_history)))

\* get_validation_summary is called and reads the length of the history
\* (275)
Enter_get_validation_summary(caller) ==
    /\ caller \notin DOMAIN calls
    /\ nothing_written
    /\ LET frame == [entered(caller, "get_validation_summary", <<>>)
                        EXCEPT !.pc = "get_validation_summary:275",
                               !.total = Len(validation_history)]
       IN goes_on(frame, [frame EXCEPT !.pc = "get_validation_summary:276"])

(***************************************************************************)
(* NPCAgent and IntentionAnalyzer.                                         *)
(***************************************************************************)
world_and_checker_same ==
    /\ UNCHANGED world
    /\ checker_same
    /\ UNCHANGED <<npcs, fact_checking>>

\* NPCAgent(name, ..., secrets=secrets): a new agent, location and emotional
\* state at their defaults; the model keeps one agent for a name
Call_NPCAgent(caller, name, secrets) ==
    /\ caller \notin DOMAIN calls
    /\ name \notin DOMAIN agents
    /\ agents' = DictSet(agents, name, NPCAgent(name, secrets, "unknown", "neutral"))
    /\ is_over(entered(caller, "NPCAgent", [name |-> name, secrets |-> secrets]),
               Returned(None))
    /\ world_and_checker_same

\* add_memory line by line: the entry is appended to memory (81), then to
\* lies_told (85) or to omissions_made (87) when its type asks for it
Run_add_memory(frame) ==
    /\ world_and_checker_same
    /\ IF frame.pc = "add_memory:81"
       THEN /\ agents' = [agents EXCEPT ![frame.npc].memory = Append(@, frame.memory[1])]
            /\ IF filed_under(frame.memory[1].type) = "lies_told"
               THEN goes_on(frame, [frame EXCEPT !.pc = "add_memory:85"])
               ELSE IF filed_under(frame.memory[1].type) = "omissions_made"
               THEN goes_on(frame, [frame EXCEPT !.pc = "add_memory:87"])
               ELSE comes_back(frame, [frame EXCEPT !.memory = None], None)
       ELSE IF frame.pc = "add_memory:85"
       THEN /\ agents' = [agents EXCEPT
                             ![frame.npc].lies_told = Append(@, frame.memory[1])]
            /\ comes_back(frame, [frame EXCEPT !.memory = None], None)
       ELSE /\ agents' = [agents EXCEPT
                             ![frame.npc].omissions_made = Append(@, frame.memory[1])]
            /\ comes_back(frame, [frame EXCEPT !.memory = None], None)

\* agent.add_memory(memory_type, content, context) is called
\* (emotional_impact at its default)
Enter_add_memory(caller, name, memory_type, content, context) ==
    /\ caller \notin DOMAIN calls
    /\ name \in DOMAIN agents
    /\ Run_add_memory(
           [entered(caller, "add_memory",
                    [agent |-> name, memory_type |-> memory_type,
                     content |-> content, context |-> context])
               EXCEPT !.npc = name,
                      !.memory = Some(MemoryEntry(memory_type, content, context, 0)),
                      !.pc = "add_memory:81"])

\* add_conversation_turn: the turn is appended to the history (91) and
\* add_memory is called for it (98)
Run_add_conversation_turn(frame) ==
    /\ world_and_checker_same
    /\ agents' = [agents EXCEPT
                     ![frame.npc].conversation_history = Append(@, frame.turn[1])]
    /\ goes_on(frame, [frame EXCEPT !.pc = "add_memory:81",
                                    !.memory = Some(memory_of_turn(frame.turn[1])),
                                    !.turn = None])

\* agent.add_conversation_turn(speaker, message) is called
Enter_add_conversation_turn(caller, name, speaker, message) ==
    /\ caller \notin DOMAIN calls
    /\ name \in DOMAIN agents
    /\ Run_add_conversation_turn(
           [entered(caller, "add_conversation_turn",
                    [agent |-> name, speaker |-> speaker, message |-> message])
               EXCEPT !.npc = name,
                      !.turn = Some(turn_of(speaker, message)),
                      !.pc = "add_conversation_turn:91"])

\* update_emotional_state after its assignment: the context of the memory
\* entry reads the attribute (236) and add_memory is called
Run_update_emotional_state(frame) ==
    /\ world_and_checker_same
    /\ UNCHANGED agents
    /\ goes_on(frame,
           [frame EXCEPT
               !.pc = "add_memory:81",
               !.memory = Some(memory_of_emotion(agents[frame.npc],
                                                 frame.args.new_state))])

\* agent.update_emotional_state(new_state) is called: the attribute is
\* assigned (232)
Enter_update_emotional_state(caller, name, new_state) ==
    /\ caller \notin DOMAIN calls
    /\ name \in DOMAIN agents
    /\ world_and_checker_same
    /\ agents' = [agents EXCEPT ![name].emotional_state = new_state]
    /\ LET frame == [entered(caller, "update_emotional_state",
                             [agent |-> name, new_state |-> new_state])
                        EXCEPT !.npc = name, !.pc = "update_emotional_state:232"]
       IN goes_on(frame, [frame EXCEPT !.pc = "update_emotional_state:236"])

\* set_location after its read: the attribute is assigned (242) and
\* add_memory is called
Run_set_location(frame) ==
    /\ world_and_checker_same
    /\ agents' = [agents EXCEPT ![frame.npc].current_location = frame.args.location]
    /\ goes_on(frame, [frame EXCEPT !.pc = "add_memory:81"])

\* agent.set_location(location) is called: the old location is read (241)
Enter_set_location(caller, name, location) ==
    /\ caller \notin DOMAIN calls
    /\ name \in DOMAIN agents
    /\ world_and_checker_same
    /\ UNCHANGED agents
    /\ LET frame == [entered(caller, "set_location",
                             [agent |-> name, location |-> location])
                        EXCEPT !.npc = name, !.pc = "set_location:241"]
       IN goes_on(frame,
              [frame EXCEPT
                  !.pc = "set_location:242",
                  !.memory = Some(memory_of_move(agents[name].current_location,
                                                 location))])

\* add_known_fact: one store into the dict
Call_add_known_fact(caller, name, key, value) ==
    /\ caller \notin DOMAIN calls
    /\ name \in DOMAIN agents
    /\ agents' = [agents EXCEPT ![name].known_facts = DictSet(@, key, value)]
    /\ is_over(entered(caller, "add_known_fact",
                       [npc |-> name, key |-> key, value |-> value]),
               Returned(None))
    /\ world_and_checker_same

\* add_witnessed_event after its test: the id is appended (119)
Run_add_witnessed_event(frame) ==
    /\ world_and_checker_same
    /\ agents' = [agents EXCEPT
                     ![frame.npc].witnessed_events = Append(@, frame.event_id)]
    /\ comes_back(frame, frame, None)

\* agent.add_witnessed_event(event_id) is called: the id is looked for in
\* the list (118)
Enter_add_witnessed_event(caller, name, event_id) ==
    /\ caller \notin DOMAIN calls
    /\ name \in DOMAIN agents
    /\ world_and_checker_same
    /\ UNCHANGED agents
    /\ LET frame == [entered(caller, "add_witnessed_event",
                             [npc |-> name, event_id |-> event_id])
                        EXCEPT !.npc = name, !.event_id = event_id,
                               !.pc = "add_witnessed_event:118"]
       IN IF InList(event_id, agents[name].witnessed_events)
          THEN is_over(frame, Returned(None))
          ELSE goes_on(frame, [frame EXCEPT !.pc = "add_witnessed_event:119"])

\* IntentionAnalyzer.analyze_for_deception(statement, agent, world): a walk
\* over the secrets of the agent, which nothing changes
Call_analyze_for_deception(caller, statement, name) ==
    /\ name \in DOMAIN agents
    /\ looked(caller, "analyze_for_deception",
              [statement |-> statement, character |-> name],
              analyze_for_deception(statement, agents[name]))

(***************************************************************************)
(* DialogueEngine, built with fact checking enabled (the default) or       *)
(* without.  The AI provider is injected: between the request converse     *)
(* makes of it and its answer any other call may run, and the answer is    *)
(* any of the statements of the model.                                     *)
(***************************************************************************)
\* get_npc: the name of the agent registered for npc_name, or None
get_npc(npc_name) ==
    IF lower(npc_name) \in DOMAIN npcs THEN Some(npcs[lower(npc_name)]) ELSE None

\* add_npc(agent) is called: the agent is stored (53) and add_character is
\* entered for its name (54)
Enter_add_npc(caller, name) ==
    /\ caller \notin DOMAIN calls
    /\ name \in DOMAIN agents
    /\ npcs' = DictSet(npcs, lower(name), name)
    /\ LET frame == [entered(caller, "add_npc", [npc |-> name])
                        EXCEPT !.npc = name, !.character = name,
                               !.pc = "add_npc:53"]
       IN goes_on(frame, [frame EXCEPT !.pc = "add_character:237"])
    /\ UNCHANGED world
    /\ checker_same
    /\ UNCHANGED <<agents, fact_checking>>

\* reset_conversation after its lookup: the history of the agent found is
\* replaced by an empty one (250)
Run_reset_conversation(frame) ==
    /\ world_and_checker_same
    /\ agents' = [agents EXCEPT ![frame.npc].conversation_history = <<>>]
    /\ is_over(frame, Returned(TRUE))

\* reset_conversation(npc_name) is called: the agent is looked up (246)
Enter_reset_conversation(caller, npc_name) ==
    /\ caller \notin DOMAIN calls
    /\ nothing_written
    /\ LET frame == [entered(caller, "reset_conversation", [npc_name |-> npc_name])
                        EXCEPT !.pc = "reset_conversation:246"]
       IN IF get_npc(npc_name) = None
          THEN is_over(frame, Returned(FALSE))
          ELSE goes_on(frame, [frame EXCEPT !.pc = "reset_conversation:250",
                                            !.npc = get_npc(npc_name)[1]])

\* the loops of sync_npc_knowledge go on, or it returns
sync_goes_on(frame, next) ==
    IF next.to_write = <<>> /\ next.to_witness = <<>>
    THEN comes_back(frame, next, None)
    ELSE goes_on(frame, next)

\* sync_npc_knowledge after the export: the next exported fact is handed to
\* add_known_fact (77), which stores it; after the facts the next exported
\* event to add_witnessed_event (81), which looks for its id in the list
\* (118)
Run_sync_npc_knowledge(frame) ==
    /\ world_and_checker_same
    /\ IF frame.to_write # <<>>
       THEN /\ agents' = [agents EXCEPT
                             ![frame.npc].known_facts =
                                 DictSet(@, Head(frame.to_write).key,
                                         Head(frame.to_write).value)]
            /\ sync_goes_on(frame, [frame EXCEPT !.to_write = Tail(@)])
       ELSE IF frame.to_witness # <<>>
       THEN /\ UNCHANGED agents
            /\ IF InList(Head(frame.to_witness), agents[frame.npc].witnessed_events)
               THEN sync_goes_on(frame, [frame EXCEPT !.to_witness = Tail(@)])
               ELSE goes_on(frame,
                       [frame EXCEPT !.to_witness = Tail(@),
                                     !.event_id = Head(frame.to_witness),
                                     !.pc = "add_witnessed_event:119",
                                     !.stack = <<"sync_npc_knowledge:76">> \o @])
       ELSE /\ UNCHANGED agents
            /\ comes_back(frame, frame, None)

\* sync_npc_knowledge(agent) is called: export_character_knowledge is
\* entered (73)
Enter_sync_npc_knowledge(caller, name) ==
    /\ caller \notin DOMAIN calls
    /\ name \in DOMAIN agents
    /\ Run_export_character_knowledge(
           [entered(caller, "sync_npc_knowledge", [npc |-> name])
               EXCEPT !.npc = name, !.character = name,
                      !.pc = "export_character_knowledge:382",
                      !.stack = <<"sync_npc_knowledge:76">>])

\* the next result after the first `tracked` the loop of converse remembers
\* something for, 0 when there is none
next_to_track(results, tracked) ==
    LET later == {j \in DOMAIN results :
                     j > tracked /\ (results[j].is_lie \/ results[j].is_omission)}
    IN IF later = {} THEN 0 ELSE CHOOSE j \in later : \A k \in later : j <= k

\* the memory the loop of converse adds for a result
memory_of_result(result, player_message) ==
    IF result.is_lie
    THEN MemoryEntry("lie", "Lied: " \o result.claim.claim_text,
                     [player_message |-> player_message, reason |-> result.reason], 0)
    ELSE MemoryEntry("omission",
                     "Omitted information related to: " \o result.claim.claim_text,
                     [player_message |-> player_message], 0)

\* the validation_results of the metadata
reported(results) ==
    [i \in DOMAIN results |->
        [claim |-> results[i].claim.claim_text, is_valid |-> results[i].is_valid,
         is_lie |-> results[i].is_lie, is_omission |-> results[i].is_omission,
         reason |-> results[i].reason]]

\* what converse returns after validation
answer_of(frame) ==
    <<join(frame.response),
      [npc_name |-> frame.npc,
       validation_enabled |-> TRUE,
       is_valid |-> frame.all_valid,
       validation_results |-> reported(frame.results),
       likely_lies |-> frame.likely[1].likely_lies,
       likely_omissions |-> frame.likely[1].likely_omissions]>>

\* converse after sync_npc_knowledge.  The player's message is recorded
\* (109).  get_dialogue_prompt is entered (112) and makes the iterator over
\* the known facts of the agent, whose walk (npc_agent.py 182) fails when
\* the dict has another size than the iterator was made over.  After the
\* provider's answer and its recording the fact checker is looked for (133):
\* without one converse returns, with one the reply is analysed and
\* validate_statement entered (140).  The loop over the results (148) calls
\* add_memory for the next lie or omission, and after the last converse
\* returns the reply and the metadata.
Run_converse(frame) ==
    IF frame.pc = "converse:109"
    THEN Run_add_conversation_turn(
             [frame EXCEPT !.turn = Some(turn_of(frame.args.player_name,
                                                 frame.args.player_message)),
                           !.stack = <<"converse:112">> \o @])
    ELSE IF frame.pc = "converse:112"
    THEN /\ nothing_written
         /\ goes_on(frame,
                [frame EXCEPT
                    !.pc = "get_dialogue_prompt:182",
                    !.size = Cardinality(DOMAIN agents[frame.npc].known_facts)])
    ELSE IF frame.pc = "get_dialogue_prompt:182"
    THEN /\ nothing_written
         /\ IF Cardinality(DOMAIN agents[frame.npc].known_facts) # frame.size
            THEN is_over(frame, Raised("RuntimeError"))
            ELSE goes_on(frame, [frame EXCEPT !.pc = "converse:119"])
    ELSE IF frame.pc = "converse:133"
    THEN /\ nothing_written
         /\ IF ~fact_checking
            THEN is_over(frame, Returned(<<join(frame.response),
                                           [npc_name |-> frame.npc,
                                            validation_enabled |-> FALSE]>>))
            ELSE extraction_goes_on(frame,
                     [statement_entered(frame, frame.response, <<>>, <<>>) EXCEPT
                         !.likely = Some(analyze_for_deception(frame.response,
                                                               agents[frame.npc])),
                         !.stack = <<"converse:148">> \o @])
    ELSE IF next_to_track(frame.results, frame.tracked) # 0
    THEN LET j == next_to_track(frame.results, frame.tracked)
         IN Run_add_memory(
                [frame EXCEPT
                    !.tracked = j,
                    !.memory = Some(memory_of_result(frame.results[j],
                                                     frame.args.player_message)),
                    !.pc = "add_memory:81",
                    !.stack = <<"converse:148">> \o @])
    ELSE /\ nothing_written
         /\ is_over(frame, Returned(answer_of(frame)))

\* converse(npc_name, player_message, player_name) is called: the agent is
\* looked up (101); an unknown NPC is answered at once, for a known one
\* sync_npc_knowledge is entered (106)
Enter_converse(caller, npc_name, player_message, player_name) ==
    /\ caller \notin DOMAIN calls
    /\ nothing_written
    /\ LET frame == [entered(caller, "converse",
                             [npc_name |-> npc_name, player_message |-> player_message,
                              player_name |-> player_name])
                        EXCEPT !.pc = "converse:101"]
       IN IF get_npc(npc_name) = None
          THEN is_over(frame, Returned(<<"[Error: NPC '" \o npc_name \o "' not found]",
                                         [error |-> "NPC not found"]>>))
          ELSE goes_on(frame,
                   [frame EXCEPT !.npc = get_npc(npc_name)[1],
                                 !.character = get_npc(npc_name)[1],
                                 !.pc = "export_character_knowledge:382",
                                 !.stack = <<"sync_npc_knowledge:76", "converse:109">>])

\* the provider answers the call with npc_response and the reply is recorded
\* (125)
Answer_converse(caller, npc_response) ==
    /\ caller \in DOMAIN calls
    /\ calls[caller].pc = "converse:119"
    /\ Run_add_conversation_turn(
           [calls[caller] EXCEPT
               !.response = npc_response,
               !.turn = Some(turn_of(calls[caller].npc, join(npc_response))),
               !.stack = <<"converse:133">> \o @])

(***************************************************************************)
(* A thread with a call under way runs its next line.                      *)
(***************************************************************************)
Run(frame) ==
    CASE frame.pc \in {"add_character:237", "add_character:238", "add_character:239"}
            -> Run_add_character(frame)
      [] frame.pc = "add_schedule_entry:295" -> Run_add_schedule_entry(frame)
      [] frame.pc \in {"add_event:178", "add_event:180", "add_event:182"}
            -> Run_add_event(frame)
      [] frame.pc \in {"add_relationship:213", "add_relationship:214"}
            -> Run_add_relationship(frame)
      [] frame.pc \in {"export_character_knowledge:382", "export_character_knowledge:383",
                       "export_character_knowledge:384", "get_events_with_character:194",
                       "get_events_with_character:195", "get_relationships:218",
                       "get_character_schedule:299"}
            -> Run_export_character_knowledge(frame)
      [] frame.pc \in {"validate_claim:138", "validate_claim:163", "validate_claim:197",
                       "validate_claim:223"}
            -> Run_validate_claim(frame)
      [] frame.pc = "extract_claims_from_statement:111"
            -> Run_extract_claims_from_statement(frame)
      [] frame.pc \in {"get_validation_summary:276", "get_validation_summary:277",
                       "get_validation_summary:278"}
            -> Run_get_validation_summary(frame)
      [] frame.pc \in {"add_memory:81", "add_memory:85", "add_memory:87"}
            -> Run_add_memory(frame)
      [] frame.pc = "update_emotional_state:236" -> Run_update_emotional_state(frame)
      [] frame.pc = "set_location:242" -> Run_set_location(frame)
      [] frame.pc = "add_witnessed_event:119" -> Run_add_witnessed_event(frame)
      [] frame.pc = "reset_conversation:250" -> Run_reset_conversation(frame)
      [] frame.pc = "sync_npc_knowledge:76" -> Run_sync_npc_knowledge(frame)
      [] frame.pc \in {"converse:109", "converse:112", "get_dialogue_prompt:182",
                       "converse:133", "converse:148"}
            -> Run_converse(frame)
      [] OTHER -> FALSE

Step(caller) ==
    /\ caller \in DOMAIN calls
    /\ Run(calls[caller])

(***************************************************************************)
(* Inputs.                                                                 *)
(***************************************************************************)
\* the thread of a program that makes its calls one after the other
MainCaller == {"main"}

CharacterInputs == {"Nathan", "Helena"}
FactKeyInputs == {"cause_of_death", "victim"}
\* a key no add_fact of the model stores
UnstoredKey == "weapon"
FactValueInputs == {PyStr("Poison"), PyStr("Elias")}
WitnessInputs == {<<>>, <<"Nathan">>, <<"Helena", "Nathan">>}
DayInputs == {1, 2}
\* two canonical periods and one period time_periods does not hold
PeriodInputs == {"morning", "evening", "early_evening"}
ScheduleLocationInputs == {"Sitting Room", "Dining Room"}
ClaimedLocationInputs == {"Dining Room", "sitting room", "Sitting Room"}

\* the state after construction, before any call: the world, a checker on
\* it, and DialogueEngine(world_state, ai_provider, enable_fact_checking)
ConstructedWith(enable_fact_checking) ==
    /\ WorldInit
    /\ validation_history = <<>>
    /\ marks = [lies |-> 0, omissions |-> 0]
    /\ agents = EmptyDict
    /\ npcs = EmptyDict
    /\ calls = EmptyDict
    /\ ended = None
    /\ fact_checking = enable_fact_checking
    /\ call = Call("__init__", <<>>)
    /\ ret = Returned(None)

\* enable_fact_checking left at its default
Constructed == ConstructedWith(TRUE)

\* enable_fact_checking either way
ConstructedEither == \E enable_fact_checking \in BOOLEAN :
                         ConstructedWith(enable_fact_checking)

(***************************************************************************)
(* SpecFacts: facts are added and overwritten, and characters are asked    *)
(* what they know.                                                         *)
(***************************************************************************)
NextFacts ==
    \/ \E caller \in MainCaller, key \in FactKeyInputs, value \in FactValueInputs,
          is_public \in BOOLEAN, witnesses \in WitnessInputs :
          add_fact(caller, key, value, "general", is_public, witnesses)
    \/ \E caller \in MainCaller, character \in CharacterInputs,
          key \in FactKeyInputs \cup {UnstoredKey} :
          Call_character_knows_fact(caller, character, key)

SpecFacts == Constructed /\ [][NextFacts]_vars

(***************************************************************************)
(* SpecOverwrite: facts are added under two keys again and again, with     *)
(* every argument varying, and read back.                                  *)
(***************************************************************************)
CategoryInputs == {"general", "event"}
OverwriteWitnessInputs == {<<>>, <<"Nathan">>, <<"Helena">>}

NextOverwrite ==
    \/ \E caller \in MainCaller, key \in FactKeyInputs, value \in FactValueInputs,
          category \in CategoryInputs, is_public \in BOOLEAN,
          witnesses \in OverwriteWitnessInputs :
          add_fact(caller, key, value, category, is_public, witnesses)
    \/ \E caller \in MainCaller, key \in FactKeyInputs : Call_get_fact(caller, key)
    \/ \E caller \in MainCaller, character \in CharacterInputs, key \in FactKeyInputs :
          Call_character_knows_fact(caller, character, key)

SpecOverwrite == Constructed /\ [][NextOverwrite]_vars

(***************************************************************************)
(* SpecSchedule: schedule entries are added (activity fixed, the optional  *)
(* arguments at their defaults), characters registered and location        *)
(* claims verified.                                                        *)
(***************************************************************************)
RECURSIVE entries_of(_)
entries_of(chars) ==
    IF chars = {} THEN 0
    ELSE LET c == CHOOSE x \in chars : TRUE
         IN Len(npc_schedules[c]) + entries_of(chars \ {c})

\* get_world_summary's total_schedule_entries
total_schedule_entries == entries_of(DOMAIN npc_schedules)

\* the entries the calls under way have yet to append
entries_to_come ==
    Cardinality({c \in DOMAIN calls : calls[c].op = "add_schedule_entry"})

ScheduleRoom == total_schedule_entries + entries_to_come < MaxSchedule

\* entries are added for one day and looked for on that day and another
EntryDayInputs == {1}

NextSchedule ==
    \/ \E caller \in MainCaller, character \in CharacterInputs, day \in EntryDayInputs,
          period \in PeriodInputs, location \in ScheduleLocationInputs :
          /\ ScheduleRoom
          /\ Enter_add_schedule_entry(caller, character, day, period, location,
                                      "activity", None, TRUE, None, "")
    \/ \E caller \in MainCaller, character \in CharacterInputs :
          Enter_add_character(caller, character)
    \/ \E caller \in MainCaller, character \in CharacterInputs,
          claimed \in ClaimedLocationInputs, day \in DayInputs, period \in PeriodInputs :
          Call_verify_character_claim_time_location(caller, character, claimed,
                                                    day, period)
    \/ \E caller \in MainCaller : Step(caller)

SpecSchedule == Constructed /\ [][NextSchedule]_vars

(***************************************************************************)
(* SpecSlot: a character is given entries for two slots of a day, again    *)
(* and again and at different places, and is looked for in both.           *)
(***************************************************************************)
SlotCharacterInputs == {"Nathan"}
SlotDayInputs == {1}
SlotPeriodInputs == {"morning", "evening"}

NextSlot ==
    \/ \E caller \in MainCaller, character \in SlotCharacterInputs,
          day \in SlotDayInputs, period \in SlotPeriodInputs,
          location \in ScheduleLocationInputs :
          /\ ScheduleRoom
          /\ Enter_add_schedule_entry(caller, character, day, period, location,
                                      "activity", None, TRUE, None, "")
    \/ \E caller \in MainCaller, character \in SlotCharacterInputs,
          day \in SlotDayInputs, period \in SlotPeriodInputs :
          Call_get_character_location_at_time(caller, character, day, period)
    \/ \E caller \in MainCaller, character \in SlotCharacterInputs,
          claimed \in ClaimedLocationInputs, day \in SlotDayInputs,
          period \in SlotPeriodInputs :
          Call_verify_character_claim_time_location(caller, character, claimed,
                                                    day, period)
    \/ \E caller \in MainCaller : Step(caller)

SpecSlot == Constructed /\ [][NextSlot]_vars

(***************************************************************************)
(* SpecWitness: schedule entries are added with companions and explicit    *)
(* witnesses, some of them the character, some named twice, and            *)
(* characters are registered before and after.                             *)
(***************************************************************************)
CompanionInputs == {None, <<"Helena">>, <<"Arthur", "Nathan">>}
ExplicitWitnessInputs ==
    {None, <<"Nathan">>, <<"Elias", "Arthur">>, <<"Elias", "Elias">>}
WitnessPeriodInputs == {"noon", "early_evening"}

NextWitness ==
    \/ \E caller \in MainCaller, character \in CharacterInputs,
          period \in WitnessPeriodInputs, with_characters \in CompanionInputs,
          witnesses \in ExplicitWitnessInputs :
          /\ ScheduleRoom
          /\ Enter_add_schedule_entry(caller, character, 1, period, "Library",
                                      "activity", with_characters, TRUE, witnesses, "")
    \/ \E caller \in MainCaller, character \in CharacterInputs :
          Enter_add_character(caller, character)
    \/ \E caller \in MainCaller : Step(caller)

SpecWitness == Constructed /\ [][NextWitness]_vars

(***************************************************************************)
(* SpecLookup: a world with schedule entries, a fact and an event is       *)
(* authored and looked into, also for a character, a key and an id the     *)
(* world never hears of.                                                   *)
(***************************************************************************)
\* a character no call registers
NeverRegistered == "Arthur"
LookupCharacterInputs == CharacterInputs \cup {NeverRegistered}
LookupPeriodInputs == {"morning", "evening"}
LookupDayInputs == {None} \cup {Some(d) : d \in DayInputs}
LookupFactInputs == {<<"victim", PyStr("Elias")>>}
\* (event_id, description, timestamp, location, participants, witnesses)
LookupEventInputs ==
    {<<"murder", "Elias is found dead", "Day 1 evening", "Library",
       <<"Helena">>, <<>> >>}
\* an id no add_event of the model stores
UnstoredEvent == "theft"

NextLookup ==
    \/ \E caller \in MainCaller, character \in CharacterInputs, day \in DayInputs,
          period \in LookupPeriodInputs :
          /\ ScheduleRoom
          /\ Enter_add_schedule_entry(caller, character, day, period, "Library",
                                      "activity", None, TRUE, None, "")
    \/ \E caller \in MainCaller, f \in LookupFactInputs :
          add_fact(caller, f[1], f[2], "general", TRUE, None)
    \/ \E caller \in MainCaller, e \in LookupEventInputs :
          Enter_add_event(caller, e[1], e[2], e[3], e[4], e[5], e[6])
    \/ \E caller \in MainCaller, character \in LookupCharacterInputs,
          day \in LookupDayInputs :
          Call_get_character_schedule(caller, character, day)
    \/ \E caller \in MainCaller, character \in LookupCharacterInputs,
          day \in DayInputs, period \in LookupPeriodInputs :
          Call_get_character_location_at_time(caller, character, day, period)
    \/ \E caller \in MainCaller, key \in {f[1] : f \in LookupFactInputs} \cup {UnstoredKey} :
          Call_get_fact(caller, key)
    \/ \E caller \in MainCaller,
          event_id \in {e[1] : e \in LookupEventInputs} \cup {UnstoredEvent} :
          Call_get_event(caller, event_id)
    \/ \E caller \in MainCaller : Step(caller)

SpecLookup == Constructed /\ [][NextLookup]_vars

(***************************************************************************)
(* SpecSecret: facts are stored and stored again, public or not, with and  *)
(* without witnesses, and the knowledge of a character is exported.        *)
(***************************************************************************)
NextSecret ==
    \/ \E caller \in MainCaller, key \in FactKeyInputs, value \in FactValueInputs,
          is_public \in BOOLEAN, witnesses \in WitnessInputs :
          add_fact(caller, key, value, "general", is_public, witnesses)
    \/ \E caller \in MainCaller, character \in CharacterInputs :
          Enter_export_character_knowledge(caller, character)
    \/ \E caller \in MainCaller : Step(caller)

SpecSecret == Constructed /\ [][NextSecret]_vars

(***************************************************************************)
(* SpecExport: facts, events, relationships and schedule entries are       *)
(* authored, some involving a character and some not, and the knowledge    *)
(* of a character is exported.                                             *)
(***************************************************************************)
\* (key, value, is_public, witnesses)
ExportFactInputs ==
    {<<"victim", PyStr("Elias"), TRUE, None>>,
     <<"cause_of_death", PyStr("Poison"), FALSE, <<"Nathan">> >>}
ExportEventInputs ==
    LookupEventInputs
    \cup {<<"argument", "Nathan and Arthur quarrel", "Day 1 morning",
            "Sitting Room", <<"Arthur">>, <<"Nathan">> >>}
\* (char_a, char_b, rel_type, description)
RelationshipInputs ==
    {<<"Helena", "Nathan", "family", "siblings">>,
     <<"Arthur", "Nathan", "employer", "butler">>}
ExportCharacterInputs == {"Nathan", "Helena", "Arthur"}
\* (character, period)
ExportScheduleInputs == {<<"Nathan", "late_night">>, <<"Helena", "morning">>}

NextExport ==
    \/ \E caller \in MainCaller, f \in ExportFactInputs :
          add_fact(caller, f[1], f[2], "general", f[3], f[4])
    \/ \E caller \in MainCaller, e \in ExportEventInputs :
          Enter_add_event(caller, e[1], e[2], e[3], e[4], e[5], e[6])
    \/ \E caller \in MainCaller, r \in RelationshipInputs :
          /\ Len(relationships) < MaxRelationships
          /\ Enter_add_relationship(caller, r[1], r[2], r[3], r[4])
    \/ \E caller \in MainCaller, e \in ExportScheduleInputs :
          /\ ScheduleRoom
          /\ Enter_add_schedule_entry(caller, e[1], 1, e[2], "Library", "activity",
                                      None, TRUE, None, "")
    \/ \E caller \in MainCaller, character \in ExportCharacterInputs :
          Enter_export_character_knowledge(caller, character)
    \/ \E caller \in MainCaller : Step(caller)

SpecExport == Constructed /\ [][NextExport]_vars

(***************************************************************************)
(* SpecCheck: facts and a location are authored while claims and          *)
(* statements are validated against them; nobody is registered (claims     *)
(* about registered people are validated in SpecPlaces, SpecMarks and      *)
(* SpecPersons).                                                           *)
(***************************************************************************)
\* the claims a statement can give at most: those of its places and times
\* and one for each person it names
claims_in(statement) ==
    Len(claims_without_persons(statement)) + Len(person_matches(statement))

\* the claims the calls under way have yet to validate, at most
RECURSIVE claims_of_calls(_)
claims_of_calls(callers) ==
    IF callers = {} THEN 0
    ELSE LET c == CHOOSE x \in callers : TRUE
         IN (IF calls[c].op = "validate_claim" THEN 1
             ELSE Len(calls[c].claims) - Len(calls[c].results) + Len(calls[c].matches))
            + claims_of_calls(callers \ {c})

claims_to_come == claims_of_calls(DOMAIN calls)

\* (key, value) pairs add_fact is called with (the other arguments at
\* their defaults)
CheckFactInputs ==
    {<<"victim", PyStr("Elias")>>, <<"mentioned_time", PyStr("Tonight")>>}
CheckLocationInputs == {"Library"}
CheckCharacterInputs == {"Nathan"}

\* claims handed to validate_claim directly: a generic key whose stored
\* value differs in case only, one whose stored value differs, a key never
\* stored, a location and a person nobody registers
ClaimInputs ==
    {Claim("the victim was elias", "general", "victim", PyStr("elias")),
     Claim("the victim was Arthur", "general", "victim", PyStr("Arthur")),
     Claim("the weapon was poison", "general", UnstoredKey, PyStr("Poison")),
     Claim("in the cellar", "location", "mentioned_location", PyStr("cellar")),
     Claim("saw Helena", "person", "mentioned_person", PyStr("Helena"))}

MarkedLiesInputs == {<<>>, <<"I was in the cellar", "last night">>}
MarkedOmissionsInputs == {<<>>, <<"tonight", "last night">>}

NextCheck ==
    \/ \E caller \in MainCaller, f \in CheckFactInputs :
          add_fact(caller, f[1], f[2], "general", TRUE, None)
    \/ \E caller \in MainCaller, location \in CheckLocationInputs :
          add_location(caller, location)
    \/ \E caller \in MainCaller, claim \in ClaimInputs, lie \in BOOLEAN,
          omission \in BOOLEAN :
          /\ validations_done + claims_to_come < MaxValidations
          /\ Enter_validate_claim(caller, claim, lie, omission)
    \/ \E caller \in MainCaller, statement \in StatementInputs,
          marked_lies \in MarkedLiesInputs, marked_omissions \in MarkedOmissionsInputs :
          /\ validations_done + claims_to_come + claims_in(statement) <= MaxValidations
          /\ Enter_validate_statement(caller, statement, marked_lies, marked_omissions)
    \/ \E caller \in MainCaller : Step(caller)

SpecCheck == Constructed /\ [][NextCheck]_vars

(***************************************************************************)
(* SpecPlaces: locations and characters are registered, directly and       *)
(* through an event, and claims naming places and people are validated.    *)
(***************************************************************************)
PlaceEventInputs ==
    {<<"argument", "Nathan and Arthur quarrel", "Day 1 morning",
       "Sitting Room", <<"Arthur">>, <<"Nathan">> >>}

\* claims handed to validate_claim: places and people in another case than
\* they may be registered in, a place and a person nobody registers
PlaceClaimInputs ==
    {Claim("at the LIBRARY", "location", "mentioned_location", PyStr("LIBRARY")),
     Claim("in the sitting room", "location", "mentioned_location",
           PyStr("sitting room")),
     Claim("in the cellar", "location", "mentioned_location", PyStr("cellar")),
     Claim("saw nathan", "person", "mentioned_person", PyStr("nathan")),
     Claim("saw Arthur", "person", "mentioned_person", PyStr("Arthur")),
     Claim("saw Helena", "person", "mentioned_person", PyStr("Helena"))}

PlaceStatementInputs ==
    {<<"I", "was", "in", "the", "library">>,
     <<"I", "saw", "Nathan", "last", "night">>}

NextPlaces ==
    \/ \E caller \in MainCaller, location \in CheckLocationInputs :
          add_location(caller, location)
    \/ \E caller \in MainCaller, character \in CheckCharacterInputs :
          Enter_add_character(caller, character)
    \/ \E caller \in MainCaller, e \in PlaceEventInputs :
          Enter_add_event(caller, e[1], e[2], e[3], e[4], e[5], e[6])
    \/ \E caller \in MainCaller, claim \in PlaceClaimInputs, lie \in BOOLEAN :
          /\ validations_done + claims_to_come < MaxValidations
          /\ Enter_validate_claim(caller, claim, lie, FALSE)
    \/ \E caller \in MainCaller, statement \in PlaceStatementInputs :
          /\ validations_done + claims_to_come + claims_in(statement) <= MaxValidations
          /\ Enter_validate_statement(caller, statement, <<>>, <<>>)
    \/ \E caller \in MainCaller : Step(caller)

SpecPlaces == Constructed /\ [][NextPlaces]_vars

(***************************************************************************)
(* SpecSummary: one thread registers a place and validates claims naming   *)
(* it and another place, with the lie mark and without, while another      *)
(* thread sums the validations up.                                         *)
(***************************************************************************)
ReaderCaller == {"reader"}
SummaryClaimInputs ==
    {Claim("at the LIBRARY", "location", "mentioned_location", PyStr("LIBRARY")),
     Claim("in the cellar", "location", "mentioned_location", PyStr("cellar"))}

NextSummary ==
    \/ \E caller \in MainCaller, location \in CheckLocationInputs :
          add_location(caller, location)
    \/ \E caller \in MainCaller, claim \in SummaryClaimInputs, lie \in BOOLEAN :
          /\ validations_done + claims_to_come < MaxSummed
          /\ Enter_validate_claim(caller, claim, lie, FALSE)
    \/ \E caller \in ReaderCaller : Enter_get_validation_summary(caller)
    \/ \E caller \in MainCaller \cup ReaderCaller : Step(caller)

SpecSummary == Constructed /\ [][NextSummary]_vars

(***************************************************************************)
(* SpecMarks: facts are stored under the keys extraction gives to places   *)
(* and people, places and people are registered, and claims are validated  *)
(* with every combination of the two marks.                                *)
(***************************************************************************)
MarksFactInputs ==
    {<<"mentioned_location", PyStr("Cellar")>>, <<"mentioned_person", PyStr("Arthur")>>}
\* a place and a person that get registered while the stored facts name
\* others, a place and a person the stored facts name and nobody registers
MarksClaimInputs ==
    {Claim("in the library", "location", "mentioned_location", PyStr("library")),
     Claim("in the cellar", "location", "mentioned_location", PyStr("cellar")),
     Claim("saw Nathan", "person", "mentioned_person", PyStr("Nathan")),
     Claim("saw Arthur", "person", "mentioned_person", PyStr("Arthur"))}

NextMarks ==
    \/ \E caller \in MainCaller, f \in MarksFactInputs :
          add_fact(caller, f[1], f[2], "general", TRUE, None)
    \/ \E caller \in MainCaller, location \in CheckLocationInputs :
          add_location(caller, location)
    \/ \E caller \in MainCaller, character \in CheckCharacterInputs :
          Enter_add_character(caller, character)
    \/ \E caller \in MainCaller, claim \in MarksClaimInputs, lie \in BOOLEAN,
          omission \in BOOLEAN :
          /\ validations_done + claims_to_come < MaxValidations
          /\ Enter_validate_claim(caller, claim, lie, omission)
    \/ \E caller \in MainCaller : Step(caller)

SpecMarks == Constructed /\ [][NextMarks]_vars

(***************************************************************************)
(* SpecPersons: characters are registered, directly and through an event,  *)
(* and statements naming people are validated: people registered, people   *)
(* never registered, a name in another case than the registered one.       *)
(***************************************************************************)
PersonStatementInputs ==
    {<<"I", "saw", "Nathan", "last", "night">>,
     <<"I", "saw", "nathan">>,
     <<"Helena", "was", "there">>,
     <<"I", "met", "Arthur", "in", "the", "library">>,
     <<"I", "saw", "Elias", "and", "Helena", "was", "present">>}
PersonMarkedLiesInputs == {<<>>, <<"saw Nathan">>}

NextPersons ==
    \/ \E caller \in MainCaller, character \in CharacterInputs :
          Enter_add_character(caller, character)
    \/ \E caller \in MainCaller, e \in PlaceEventInputs :
          Enter_add_event(caller, e[1], e[2], e[3], e[4], e[5], e[6])
    \/ \E caller \in MainCaller, statement \in PersonStatementInputs,
          marked_lies \in PersonMarkedLiesInputs :
          /\ validations_done + claims_to_come + claims_in(statement) <= MaxValidations
          /\ Enter_validate_statement(caller, statement, marked_lies, <<>>)
    \/ \E caller \in MainCaller : Step(caller)

SpecPersons == Constructed /\ [][NextPersons]_vars

(***************************************************************************)
(* SpecInterleave: one thread authors the world (facts, locations,         *)
(* characters, schedule entries) while another validates.                  *)
(***************************************************************************)
AuthorCaller == {"author"}
InterleaveScheduleInputs == {<<"Nathan", 1, "morning", "Library">>}
\* the claims about the victim and the claim about a place
InterleaveFactInputs == {<<"victim", PyStr("Elias")>>}
InterleaveClaimInputs ==
    {claim \in ClaimInputs : claim.claim_text \in {"the victim was Arthur", "in the cellar"}}
InterleaveStatementInputs == {<<"I", "was", "in", "the", "library">>}

NextInterleave ==
    \/ \E caller \in AuthorCaller, f \in InterleaveFactInputs :
          add_fact(caller, f[1], f[2], "general", TRUE, None)
    \/ \E caller \in AuthorCaller, location \in CheckLocationInputs :
          add_location(caller, location)
    \/ \E caller \in AuthorCaller, character \in CheckCharacterInputs :
          Enter_add_character(caller, character)
    \/ \E caller \in AuthorCaller, e \in InterleaveScheduleInputs :
          /\ ScheduleRoom
          /\ Enter_add_schedule_entry(caller, e[1], e[2], e[3], e[4], "activity",
                                      None, TRUE, None, "")
    \/ \E caller \in MainCaller, claim \in InterleaveClaimInputs, lie \in BOOLEAN :
          /\ validations_done + claims_to_come < MaxValidations
          /\ Enter_validate_claim(caller, claim, lie, FALSE)
    \/ \E caller \in MainCaller, statement \in InterleaveStatementInputs :
          /\ validations_done + claims_to_come + claims_in(statement) <= MaxValidations
          /\ Enter_validate_statement(caller, statement, <<>>, <<>>)
    \/ \E caller \in MainCaller \cup AuthorCaller : Step(caller)

SpecInterleave == Constructed /\ [][NextInterleave]_vars

(***************************************************************************)
(* SpecAgent: one agent is built, remembers, talks, moves and changes      *)
(* mood, is registered with the engine and has its conversation reset.     *)
(***************************************************************************)
\* most memory entries an agent of SpecAgent holds
MaxMemory == 3

AgentInputs == {"Nathan"}
MemoryInputs ==
    {<<"lie", "Lied: at the library", [reason |-> "alibi"]>>,
     <<"omission", "Omitted information related to: the key", EmptyDict>>,
     <<"event", "Dinner was served", EmptyDict>>}
TurnInputs == {<<"Player", "Where were you">>}
EmotionInputs == {"nervous", "angry"}
MoveInputs == {"Library"}
ResetInputs == {"nathan", "Helena"}
\* what the agent is told directly, under a key the world stores nothing for
ToldFactInputs == {<<"weapon", PyStr("Poison")>>}
SeenEventInputs == {"murder"}

MemoryRoom(name) == name \in DOMAIN agents /\ Len(agents[name].memory) < MaxMemory

NextAgent ==
    \/ \E caller \in MainCaller, name \in AgentInputs : Call_NPCAgent(caller, name, <<>>)
    \/ \E caller \in MainCaller, name \in AgentInputs, m \in MemoryInputs :
          MemoryRoom(name) /\ Enter_add_memory(caller, name, m[1], m[2], m[3])
    \/ \E caller \in MainCaller, name \in AgentInputs, t \in TurnInputs :
          MemoryRoom(name) /\ Enter_add_conversation_turn(caller, name, t[1], t[2])
    \/ \E caller \in MainCaller, name \in AgentInputs, new_state \in EmotionInputs :
          MemoryRoom(name) /\ Enter_update_emotional_state(caller, name, new_state)
    \/ \E caller \in MainCaller, name \in AgentInputs, location \in MoveInputs :
          MemoryRoom(name) /\ Enter_set_location(caller, name, location)
    \/ \E caller \in MainCaller, name \in AgentInputs : Enter_add_npc(caller, name)
    \/ \E caller \in MainCaller, npc_name \in ResetInputs :
          Enter_reset_conversation(caller, npc_name)
    \/ \E caller \in MainCaller, name \in AgentInputs, f \in ToldFactInputs :
          Call_add_known_fact(caller, name, f[1], f[2])
    \/ \E caller \in MainCaller, name \in AgentInputs, event_id \in SeenEventInputs :
          Enter_add_witnessed_event(caller, name, event_id)
    \/ \E caller \in MainCaller : Step(caller)

SpecAgent == Constructed /\ [][NextAgent]_vars

(***************************************************************************)
(* SpecAnalyze: agents are built with secrets or without, in a world that  *)
(* is authored meanwhile, and statements are analysed against the secrets. *)
(***************************************************************************)
AnalyzeAgentInputs == {"Nathan", "Helena"}
\* two secrets sharing a word with a statement of the model ("I", in another
\* case "the", "cellar"), between them one sharing none; one secret sharing
\* none
SecretInputs ==
    {<<>>,
     << <<"I", "poisoned", "Elias">>, <<"gambling", "debts">>,
        <<"The", "cellar", "key">> >>,
     << <<"gambling", "debts">> >>}

NextAnalyze ==
    \/ \E caller \in MainCaller, name \in AnalyzeAgentInputs, secrets \in SecretInputs :
          Call_NPCAgent(caller, name, secrets)
    \/ \E caller \in MainCaller, location \in CheckLocationInputs :
          add_location(caller, location)
    \/ \E caller \in MainCaller, name \in AnalyzeAgentInputs,
          new_state \in EmotionInputs :
          /\ name \in DOMAIN agents
          /\ agents[name].memory = <<>>
          /\ Enter_update_emotional_state(caller, name, new_state)
    \/ \E caller \in MainCaller, name \in AnalyzeAgentInputs,
          statement \in StatementInputs :
          Call_analyze_for_deception(caller, statement, name)
    \/ \E caller \in MainCaller : Step(caller)

SpecAnalyze == Constructed /\ [][NextAnalyze]_vars

(***************************************************************************)
(* SpecDeception: the thread of the engine builds and registers an agent,  *)
(* stores a fact under the key extraction gives to times and converses     *)
(* with the agent and with somebody the engine does not know, while        *)
(* another thread validates claims, marked a lie, marked an omission or    *)
(* unmarked, and sums the validations up.                                  *)
(***************************************************************************)
\* most turns of conversation (player and reply) an agent has in a behaviour
MaxTurns == 1
\* the thread that calls the engine, one call at a time; the other calls of
\* a behaviour are made by another thread
EngineCallerInputs == {"main"}
OtherCaller == {"other"}

DeceptionFactInputs == {<<"mentioned_time", PyStr("last night")>>}
DeceptionClaimInputs ==
    {Claim("tonight", "time", "mentioned_time", PyStr("tonight"))}
\* what the provider answers: a time
ResponseInputs == {<<"I", "left", "tonight">>}
NpcNameInputs == {"nathan", "Helena"}
PlayerMessageInputs == {"Where were you"}

\* the turns of conversation the agent remembers
turns_of(name) ==
    Cardinality({i \in DOMAIN agents[name].memory :
                    agents[name].memory[i].type = "conversation"})

\* converse has room: an unknown NPC, or one that has turns left
TurnRoom(npc_name) ==
    get_npc(npc_name) # None =>
        turns_of(get_npc(npc_name)[1]) + 2 <= 2 * MaxTurns

NextDeception ==
    \/ \E caller \in EngineCallerInputs, name \in AgentInputs : Call_NPCAgent(caller, name, <<>>)
    \/ \E caller \in EngineCallerInputs, name \in AgentInputs : Enter_add_npc(caller, name)
    \/ \E caller \in EngineCallerInputs, f \in DeceptionFactInputs :
          add_fact(caller, f[1], f[2], "general", TRUE, None)
    \/ \E caller \in OtherCaller, claim \in DeceptionClaimInputs,
          mark \in {<<FALSE, FALSE>>, <<TRUE, FALSE>>, <<FALSE, TRUE>>} :
          /\ validations_done + claims_to_come < MaxValidations
          /\ Enter_validate_claim(caller, claim, mark[1], mark[2])
    \/ \E caller \in EngineCallerInputs, npc_name \in NpcNameInputs,
          player_message \in PlayerMessageInputs :
          /\ TurnRoom(npc_name)
          /\ Enter_converse(caller, npc_name, player_message, "Player")
    \/ \E caller \in EngineCallerInputs, npc_response \in ResponseInputs :
          /\ validations_done + claims_to_come + claims_in(npc_response)
                <= MaxValidations
          /\ Answer_converse(caller, npc_response)
    \/ \E caller \in OtherCaller : Enter_get_validation_summary(caller)
    \/ \E caller \in EngineCallerInputs \cup OtherCaller : Step(caller)

SpecDeception == Constructed /\ [][NextDeception]_vars

(***************************************************************************)
(* SpecEngine: the thread of the engine builds and registers an agent and  *)
(* synchronises its knowledge, directly and by conversing, while another   *)
(* thread stores facts and stores them again, public or not, and tells the *)
(* agent a fact directly.                                                  *)
(***************************************************************************)
EngineWitnessInputs == {None}
EngineKeyInputs == {"victim"}
QuietResponseInputs == {<<"nothing", "happened">>}

NextEngine ==
    \/ \E caller \in EngineCallerInputs, name \in AgentInputs : Call_NPCAgent(caller, name, <<>>)
    \/ \E caller \in EngineCallerInputs, name \in AgentInputs : Enter_add_npc(caller, name)
    \/ \E caller \in OtherCaller, key \in EngineKeyInputs, value \in FactValueInputs,
          is_public \in BOOLEAN, witnesses \in EngineWitnessInputs :
          add_fact(caller, key, value, "general", is_public, witnesses)
    \/ \E caller \in EngineCallerInputs, name \in AgentInputs :
          Enter_sync_npc_knowledge(caller, name)
    \/ \E caller \in OtherCaller, name \in AgentInputs, f \in ToldFactInputs :
          Call_add_known_fact(caller, name, f[1], f[2])
    \/ \E caller \in EngineCallerInputs, npc_name \in NpcNameInputs,
          player_message \in PlayerMessageInputs :
          /\ TurnRoom(npc_name)
          /\ Enter_converse(caller, npc_name, player_message, "Player")
    \/ \E caller \in EngineCallerInputs, npc_response \in QuietResponseInputs :
          Answer_converse(caller, npc_response)
    \/ \E caller \in EngineCallerInputs \cup OtherCaller : Step(caller)

SpecEngine == ConstructedEither /\ [][NextEngine]_vars

(***************************************************************************)
(* SpecThreads: two threads validate statements against one checker, one   *)
(* after the other or in turns, one between the lines of the other, while  *)
(* a third registers a place.                                              *)
(***************************************************************************)
\* most claims validated in one behaviour of SpecThreads
MaxClaimSteps == 5

CallerInputs == {"a", "b"}
ThirdCaller == {"c"}
\* (statement, marked_omissions): a statement of two claims, without marks
\* and with its second claim marked, and a statement of one claim
ThreadStatementInputs ==
    {<< <<"I", "was", "in", "the", "cellar", "tonight">>, <<>> >>,
     << <<"I", "was", "in", "the", "cellar", "tonight">>, <<"tonight">> >>,
     << <<"I", "was", "in", "the", "library">>, <<>> >>}

NextThreads ==
    \/ \E caller \in ThirdCaller, location \in CheckLocationInputs :
          add_location(caller, location)
    \/ \E caller \in CallerInputs, s \in ThreadStatementInputs :
          /\ validations_done + claims_to_come + claims_in(s[1]) <= MaxClaimSteps
          /\ Enter_validate_statement(caller, s[1], <<>>, s[2])
    \/ \E caller \in CallerInputs : Step(caller)

SpecThreads == Constructed /\ [][NextThreads]_vars


(***************************************************************************)
(* Properties of WorldState.                                               *)
(***************************************************************************)
\* what the data model says a character may know: a fact is stored under the
\* key, and it is public or the character is one of its witnesses
EntitledToKnow(character, fact_key) ==
    /\ fact_key \in DOMAIN facts
    /\ \/ facts[fact_key].is_public
       \/ character \in Range(facts[fact_key].witnesses)

\* C1: after any sequence of add_fact calls, character_knows_fact(c, k) is
\* true iff a fact is stored under k and it is public or c is one of its
\* witnesses (the fact being the one the latest add_fact for k gave); for a
\* key with no stored fact it is false.
C1_KnowsIffPublicOrWitness ==
    /\ \A c \in CharacterInputs, k \in FactKeyInputs \cup {UnstoredKey} :
          character_knows_fact(c, k) <=> EntitledToKnow(c, k)
    /\ call.op = "character_knows_fact" =>
          ret.value = EntitledToKnow(call.args.character, call.args.fact_key)
    /\ call.op = "add_fact" =>
          \A c \in CharacterInputs :
             character_knows_fact(c, call.args.key)
                <=> (call.args.is_public \/ c \in Range(call.args.witnesses))
    /\ \A c \in CharacterInputs : ~character_knows_fact(c, UnstoredKey)

\* a private fact witnessed by Nathan alone: Helena was asked and does not know
C1_Witness ==
    /\ call.op = "character_knows_fact"
    /\ call.args = [character |-> "Helena", fact_key |-> "cause_of_death"]
    /\ "cause_of_death" \in DOMAIN facts
    /\ ~facts["cause_of_death"].is_public
    /\ facts["cause_of_death"].witnesses = <<"Nathan">>
    /\ ret.value = FALSE
    /\ character_knows_fact("Nathan", "cause_of_death")

\* C2: add_schedule_entry with a period outside the seven canonical values
\* raises and leaves the world as it was: the schedule lists, the registered
\* characters and the set of characters having a schedule list do not change.
C2_InvalidPeriodLeavesWorld ==
    [][ (call'.op = "add_schedule_entry"
         /\ ~(call'.args.period \in Range(time_periods)))
        => /\ ret'.raised = "ValueError"
           /\ characters' = characters
           /\ DOMAIN npc_schedules' = DOMAIN npc_schedules
           /\ npc_schedules' = npc_schedules
           /\ facts' = facts
           /\ events' = events
           /\ relationships' = relationships
           /\ locations' = locations
           /\ validation_history' = validation_history ]_vars

\* the call failed for a character never seen before, in a world that
\* already holds an entry of another character
C2_Witness ==
    /\ call.op = "add_schedule_entry"
    /\ call.args.period = "early_evening"
    /\ ret.raised = "ValueError"
    /\ call.args.character \notin characters
    /\ call.args.character \notin DOMAIN npc_schedules
    /\ total_schedule_entries > 0

\* the positions of the character's stored entries for the slot, in the
\* order the entries were added
SlotEntries(character, day, period) ==
    IF character \in DOMAIN npc_schedules
    THEN {i \in DOMAIN npc_schedules[character] :
            /\ npc_schedules[character][i].time_block.day = day
            /\ npc_schedules[character][i].time_block.period = period}
    ELSE {}

FirstOf(S) == CHOOSE i \in S : \A j \in S : i <= j

EqualIgnoringCase(a, b) == lower(a) = lower(b)

\* C3: verify_character_claim_time_location returns (true, absent) when the
\* character has no entry for the (day, period); otherwise, with actual the
\* location of the first matching entry, (true, actual) when actual equals
\* the claimed location ignoring case and (false, actual) when it does not.
C3_VerifyClaim ==
    call.op = "verify_character_claim_time_location" =>
        LET a == call.args
            slot == SlotEntries(a.character, a.day, a.period)
        IN IF slot = {} THEN ret.value = <<TRUE, None>>
           ELSE LET actual == npc_schedules[a.character][FirstOf(slot)].location
                IN ret.value = <<EqualIgnoringCase(actual, a.claimed_location),
                                 Some(actual)>>

\* a claim that matches the stored location only when case is ignored
C3_Witness ==
    /\ call.op = "verify_character_claim_time_location"
    /\ call.args.claimed_location = "sitting room"
    /\ ret.value = <<TRUE, Some("Sitting Room")>>

\* the scenario's entry for Nathan, and a world that holds nothing else
NathanEntryArgs ==
    schedule_args("Nathan", 1, "early_evening", "Sitting Room", "activity",
                  None, TRUE, None, "")

NothingButNathanEntry ==
    /\ facts = EmptyDict
    /\ events = EmptyDict
    /\ relationships = <<>>
    /\ locations = {}
    /\ characters \subseteq {"Nathan"}
    /\ DOMAIN npc_schedules \subseteq {"Nathan"}
    /\ \A c \in DOMAIN npc_schedules :
          /\ Len(npc_schedules[c]) <= 1
          /\ \A i \in DOMAIN npc_schedules[c] :
                /\ npc_schedules[c][i].time_block = TimeBlock(1, "early_evening")
                /\ npc_schedules[c][i].location = "Sitting Room"

\* C4: from an empty world, after add_schedule_entry("Nathan", 1,
\* "early_evening", "Sitting Room"), the call
\* verify_character_claim_time_location("Nathan", "Dining Room", 1,
\* "early_evening") returns (false, "Sitting Room").
C4_NathanScenario ==
    [][ (/\ call.op = "add_schedule_entry"
         /\ call.args = NathanEntryArgs
         /\ NothingButNathanEntry
         /\ call'.op = "verify_character_claim_time_location"
         /\ call'.args = [character |-> "Nathan", claimed_location |-> "Dining Room",
                          day |-> 1, period |-> "early_evening"])
        => ret'.value = <<FALSE, Some("Sitting Room")>> ]_vars

(***************************************************************************)
(* Properties of FactChecker.                                              *)
(***************************************************************************)
\* the per-claim results a validate_statement call returned
ReturnedResults == ret.value[2]

\* C5: a claim whose exact claim_text is in the marked-lies list given to
\* validate_statement, or that validate_claim is called for with
\* is_intentional_lie, gets a result with is_valid and is_lie, whatever its
\* category and whatever the world holds.
C5_MarkedLieIsValidLie ==
    /\ (call.op = "validate_claim" /\ call.args.is_intentional_lie)
          => (ret.value.is_valid /\ ret.value.is_lie)
    /\ call.op = "validate_statement" =>
          \A i \in DOMAIN ReturnedResults :
             InList(ReturnedResults[i].claim.claim_text, call.args.marked_lies)
                => (ReturnedResults[i].is_valid /\ ReturnedResults[i].is_lie)

\* a statement whose location does not exist was validated with that claim
\* marked as a lie
C5_Witness ==
    /\ call.op = "validate_statement"
    /\ \E i \in DOMAIN ReturnedResults :
          /\ InList(ReturnedResults[i].claim.claim_text, call.args.marked_lies)
          /\ ReturnedResults[i].claim.category = "location"
          /\ ~dispatch(ReturnedResults[i].claim).is_valid
          /\ ReturnedResults[i].is_valid
          /\ ReturnedResults[i].is_lie

\* C6: validate_claim on an unmarked claim that is neither a location nor a
\* person claim: a fact stored under the key whose value equals the claimed
\* value ignoring case gives a valid result with is_lie false; a stored fact
\* whose value differs gives an invalid result with is_lie and the stored
\* value as world_truth; no stored fact gives a valid result with the
\* reason "no contradiction with known facts".
C6_GenericKey ==
    (/\ call.op = "validate_claim"
     /\ ~call.args.is_intentional_lie
     /\ ~call.args.is_intentional_omission
     /\ call.args.claim.category \notin {"location", "person"})
    => LET claim == call.args.claim
           r == ret.value
       IN IF claim.key \in DOMAIN facts
          THEN IF EqualIgnoringCase(str(facts[claim.key].value), str(claim.value))
               THEN r.is_valid /\ ~r.is_lie
               ELSE /\ ~r.is_valid
                    /\ r.is_lie
                    /\ r.world_truth = Some(facts[claim.key].value)
          ELSE /\ r.is_valid
               /\ EqualIgnoringCase(r.reason, "no contradiction with known facts")

\* the claimed value differs from the stored one in case only
C6_Witness ==
    /\ call.op = "validate_claim"
    /\ ~call.args.is_intentional_lie
    /\ ~call.args.is_intentional_omission
    /\ call.args.claim.key = "victim"
    /\ call.args.claim.value = PyStr("elias")
    /\ "victim" \in DOMAIN facts
    /\ facts["victim"].value = PyStr("Elias")
    /\ ret.value.is_valid

\* C7: when validate_statement extracts a claim whose text is in neither
\* marked list and whose result is invalid, the overall boolean it returns
\* is false.
C7_UnmarkedContradictionFails ==
    call.op = "validate_statement" =>
        ((\E i \in DOMAIN ReturnedResults :
             /\ ~InList(ReturnedResults[i].claim.claim_text, call.args.marked_lies)
             /\ ~InList(ReturnedResults[i].claim.claim_text, call.args.marked_omissions)
             /\ ~ReturnedResults[i].is_valid)
         => ret.value[1] = FALSE)

\* C8: the overall boolean of validate_statement is false iff some returned
\* result is invalid and not a lie; it is true for a statement with no
\* claims and when every claim is marked.
C8_OverallBoolean ==
    call.op = "validate_statement" =>
        /\ ret.value[1] = FALSE
              <=> \E i \in DOMAIN ReturnedResults :
                     ~ReturnedResults[i].is_valid /\ ~ReturnedResults[i].is_lie
        /\ ReturnedResults = <<>> => ret.value[1] = TRUE
        /\ (\A i \in DOMAIN ReturnedResults :
               \/ InList(ReturnedResults[i].claim.claim_text, call.args.marked_lies)
               \/ InList(ReturnedResults[i].claim.claim_text, call.args.marked_omissions))
              => ret.value[1] = TRUE

\* a statement contradicting a stored fact came back as valid overall
C8_Witness ==
    /\ call.op = "validate_statement"
    /\ ret.value[1] = TRUE
    /\ \E i \in DOMAIN ReturnedResults :
          ~ReturnedResults[i].is_valid /\ ReturnedResults[i].is_lie

\* C9: a validate_claim call with neither mark set appends exactly one
\* entry, the result it returns, to the end of the validation history: the
\* history it leaves is the history it found on entry followed by the
\* result, and the append is the last thing it does.
C9_UnmarkedResultAppended ==
    [][ (/\ call'.op = "validate_claim"
         /\ ~call'.args.is_intentional_lie
         /\ ~call'.args.is_intentional_omission)
        => /\ ret'.raised = ""
           /\ validation_history' = Append(validation_history, ret'.value)
           /\ validation_history' =
                 Append(ended'[1].found.validation_history, ret'.value) ]_vars

\* the history holds a location result followed by the result of a claim
\* about a key nothing is stored under, the one just returned
C9_Witness ==
    /\ call.op = "validate_claim"
    /\ ~call.args.is_intentional_lie
    /\ ~call.args.is_intentional_omission
    /\ call.args.claim.key = UnstoredKey
    /\ Len(validation_history) = 2
    /\ validation_history[1].claim.category = "location"
    /\ validation_history[2] = ret.value

\* C10: after validations of which k carried the intentional-lie mark and m
\* the intentional-omission mark, get_validation_summary reports k
\* intentional lies and m omissions.  Stated for the summaries during which
\* nothing was validated: the history, which only grows, is as long as the
\* first read found it.
C10_SummaryCountsMarks ==
    (call.op = "get_validation_summary" /\ ended # None
        /\ ended[1].total = Len(validation_history)) =>
        /\ ret.value.intentional_lies = marks.lies
        /\ ret.value.omissions = marks.omissions

\* the float x lies within `halves` halves of a unit in its last place of
\* the quotient num / den of two ints, num >= 0 and den > 0: twice the
\* distance between x * den and num, in units of the last place of x, is at
\* most halves * den
float_near(x, num, den, halves) ==
    IF x = float_zero THEN num = 0
    ELSE LET here == bits_times(x.mant, 2 * den)
             there == bits_shift(bits_of(num), 1 - x.exp)
             slack == bits_of(halves * den)
         IN /\ x.exp < 0
            /\ bits_le(here, bits_add(there, slack))
            /\ bits_le(there, bits_add(here, slack))

\* what a step says of the summary: no read of it changes the history, and
\* a summary taken after the validations, none of them between its reads
\* (the history, which only grows, is as long as the first read found it),
\* has total = the length of the history, valid + invalid = total with
\* 0 <= valid <= total, the rate 0 when total = 0, and otherwise a float
\* that is 0.0 for valid = 0, 100.0 for valid = total and always within
\* `halves` halves of a unit in its last place of valid*100/total
SummaryArithmetic(halves) ==
    /\ call'.op \in {"get_validation_summary:", "get_validation_summary"}
          => validation_history' = validation_history
    /\ (call'.op = "get_validation_summary"
          /\ ended'[1].total = Len(validation_history))
          => LET s == ret'.value
             IN /\ ret'.raised = ""
                /\ s.total_validations = Len(validation_history)
                /\ s.valid_claims + s.invalid_claims = s.total_validations
                /\ 0 <= s.valid_claims
                /\ s.valid_claims <= s.total_validations
                /\ IF s.total_validations = 0
                   THEN s.accuracy_rate = PyInt(0)
                   ELSE /\ s.accuracy_rate.type = "float"
                        /\ s.valid_claims = 0 => s.accuracy_rate = float_zero
                        /\ s.valid_claims = s.total_validations
                              => s.accuracy_rate = to_float(bits_of(100), 0)
                        /\ float_near(s.accuracy_rate, s.valid_claims * 100,
                                      s.total_validations, halves)

\* C11: get_validation_summary reports total = the length of the validation
\* history, valid + invalid = total with 0 <= valid <= total, an
\* accuracy_rate of 0 when total = 0 and otherwise the float
\* valid / total * 100, which lies within three halves of a unit in its last
\* place of valid*100/total (the quotient is rounded, then the product) and
\* is exactly 0.0 and 100.0 at the ends; and no step of the call changes the
\* history.  The counts are those of a summary taken after the validations,
\* none of them between its reads.
C11_SummaryArithmetic == [][SummaryArithmetic(3)]_vars

\* the statement with the rate as valid*100/total, the float nearest to that
\* quotient: within half a unit in its last place
C11_RateAsStated == [][SummaryArithmetic(1)]_vars

\* a summary over one valid and two invalid results: the rate is
\* 33.33333333333333, not the float nearest to 100/3
C11_Witness ==
    /\ call.op = "get_validation_summary"
    /\ ended # None
    /\ ended[1].total = Len(validation_history)
    /\ Len(validation_history) = 3
    /\ ret.value.valid_claims = 1
    /\ ret.value.invalid_claims = 2
    /\ ret.value.accuracy_rate = float_times_int(truediv(1, 3), 100)
    /\ float_near(ret.value.accuracy_rate, 100, 3, 3)
    /\ ~float_near(ret.value.accuracy_rate, 100, 3, 1)

\* list a is the beginning of list b
IsPrefix(a, b) == Len(a) <= Len(b) /\ SubSeq(b, 1, Len(a)) = a

\* C12: the validation history is append-only: over every step, a world
\* mutation (add_fact, add_location, add_character, add_schedule_entry) or a
\* validation, the history before the step is a prefix of the history after
\* it, so a recorded result keeps its place and all its fields.
C12_HistoryAppendOnly ==
    [][ IsPrefix(validation_history, validation_history') ]_vars

\* a result recorded as valid that the world, changed since, would no longer
\* give; a schedule entry was added and a later result follows it
C12_Witness ==
    /\ call.op = "validate_claim"
    /\ Len(validation_history) = 2
    /\ validation_history[1].is_valid
    /\ ~dispatch(validation_history[1].claim).is_valid
    /\ total_schedule_entries > 0

\* C13: a lookup that misses returns the absent value (the empty list for
\* get_character_schedule), does not raise and changes nothing:
\* get_character_location_at_time for a (character, day, period) no entry
\* matches, registered character or not; get_character_schedule for an
\* unknown character; get_fact and get_event for an unknown key or id.
C13_LookupMisses ==
    [][ /\ (/\ call'.op = "get_character_location_at_time"
            /\ SlotEntries(call'.args.character, call'.args.day,
                           call'.args.period) = {})
           => (ret' = Returned(None) /\ UNCHANGED <<world, validation_history>>)
        /\ (/\ call'.op = "get_character_schedule"
            /\ call'.args.character \notin characters)
           => (ret' = Returned(<<>>) /\ UNCHANGED <<world, validation_history>>)
        /\ (call'.op = "get_fact" /\ call'.args.key \notin DOMAIN facts)
           => (ret' = Returned(None) /\ UNCHANGED <<world, validation_history>>)
        /\ (call'.op = "get_event" /\ call'.args.event_id \notin DOMAIN events)
           => (ret' = Returned(None) /\ UNCHANGED <<world, validation_history>>)
      ]_vars

\* the place of a never registered character was asked for, for a slot
\* another character has an entry in, and that of a registered character
\* would have been found on another day
C13_Witness ==
    /\ call.op = "get_character_location_at_time"
    /\ call.args.character = NeverRegistered
    /\ NeverRegistered \notin characters
    /\ ret = Returned(None)
    /\ SlotEntries("Nathan", call.args.day, call.args.period) # {}
    /\ \E d \in DayInputs :
          /\ SlotEntries("Helena", d, call.args.period) # {}
          /\ SlotEntries("Helena", call.args.day, call.args.period) = {}

\* how often e is in the list
Count(e, seq) == Cardinality({i \in DOMAIN seq : seq[i] = e})

\* (day, index of the period in the canonical order) as one number
ScheduleKey(e) ==
    e.time_block.day * Len(time_periods) + index(time_periods, e.time_block.period)

\* C14: get_character_schedule(c, day) returns exactly the entries stored
\* for c (those of the day when a day is given), each as often as it was
\* added, in non-decreasing order of (day, index of the period in the
\* canonical period order), whatever the order they were added in.
C14_ScheduleSorted ==
    call.op = "get_character_schedule" =>
        LET c == call.args.character
            day == call.args.day
            stored == IF c \in DOMAIN npc_schedules THEN npc_schedules[c] ELSE <<>>
            wanted == {i \in DOMAIN stored :
                         IF day = None THEN TRUE
                         ELSE stored[i].time_block.day = day[1]}
            r == ret.value
        IN /\ Len(r) = Cardinality(wanted)
           /\ \A e \in Range(r) \cup {stored[i] : i \in wanted} :
                 Count(e, r) = Cardinality({i \in wanted : stored[i] = e})
           /\ \A i \in DOMAIN r : r[i].character = c
           /\ \A i \in DOMAIN r, j \in DOMAIN r :
                 i < j => ScheduleKey(r[i]) <= ScheduleKey(r[j])

\* the evening of a day was added before its morning, and the whole
\* schedule was asked for
C14_Witness ==
    /\ call.op = "get_character_schedule"
    /\ call.args = [character |-> "Nathan", day |-> None]
    /\ "Nathan" \in DOMAIN npc_schedules
    /\ Len(npc_schedules["Nathan"]) = 2
    /\ npc_schedules["Nathan"][1].time_block = TimeBlock(1, "evening")
    /\ npc_schedules["Nathan"][2].time_block = TimeBlock(1, "morning")
    /\ ret.value = <<npc_schedules["Nathan"][2], npc_schedules["Nathan"][1]>>

\* C15: the witnesses of a schedule entry a successful add_schedule_entry
\* stored are, as a set, the explicit witnesses of the call, the character
\* and the companions: the character and every companion are among the
\* witnesses of every stored entry, and nobody else is added.
C15_WitnessUnion ==
    /\ \A c \in DOMAIN npc_schedules : \A i \in DOMAIN npc_schedules[c] :
          LET e == npc_schedules[c][i]
          IN /\ e.character = c
             /\ c \in Range(e.witnesses)
             /\ Range(e.with_characters) \subseteq Range(e.witnesses)
    /\ (call.op = "add_schedule_entry" /\ ret.raised = "") =>
          LET a == call.args
              e == npc_schedules[a.character][Len(npc_schedules[a.character])]
          IN /\ e.with_characters = a.with_characters
             /\ Range(e.witnesses)
                  = Range(a.witnesses) \cup {a.character} \cup Range(a.with_characters)

\* explicit witnesses, the character and two companions, one of them an
\* explicit witness too
C15_Witness ==
    /\ call.op = "add_schedule_entry"
    /\ ret.raised = ""
    /\ call.args.character = "Helena"
    /\ call.args.witnesses = <<"Elias", "Arthur">>
    /\ call.args.with_characters = <<"Arthur", "Nathan">>
    /\ npc_schedules["Helena"][Len(npc_schedules["Helena"])].witnesses
          = <<"Elias", "Arthur", "Helena", "Nathan">>

\* C16: add_fact is last-write-wins by key: there is one fact per key, and
\* after add_fact(k, ...) the value, category, visibility flag and witness
\* list stored under k are exactly those of this call, whatever was stored
\* before (the witnesses replaced, not merged), so that get_fact(k) and
\* character_knows_fact(c, k) follow from this call alone; the facts under
\* the other keys are as they were.
C16_LastWriteWins ==
    [][ call'.op = "add_fact"
        => LET a == call'.args
           IN /\ DOMAIN facts' = DOMAIN facts \cup {a.key}
              /\ \A k \in DOMAIN facts' : facts'[k].key = k
              /\ facts'[a.key].value = a.value
              /\ facts'[a.key].category = a.category
              /\ facts'[a.key].is_public = a.is_public
              /\ facts'[a.key].witnesses = a.witnesses
              /\ \A k \in FactKeyInputs : a.key = k =>
                    /\ get_fact(k)' = Some(a.value)
                    /\ \A c \in CharacterInputs :
                          character_knows_fact(c, k)'
                             <=> (a.is_public \/ c \in Range(a.witnesses))
              /\ \A k \in DOMAIN facts \ {a.key} : facts'[k] = facts[k]
      ]_vars

\* a public fact witnessed by Nathan was overwritten by a private one of
\* another value and category witnessed by Helena, next to a fact stored
\* under the other key: Nathan no longer knows it
C16_Witness ==
    /\ call.op = "add_fact"
    /\ replaced # None
    /\ replaced[1].key = call.args.key
    /\ replaced[1].value # call.args.value
    /\ replaced[1].category # call.args.category
    /\ replaced[1].is_public
    /\ ~call.args.is_public
    /\ replaced[1].witnesses = <<"Nathan">>
    /\ facts[call.args.key].witnesses = <<"Helena">>
    /\ ~character_knows_fact("Nathan", call.args.key)
    /\ DOMAIN facts = FactKeyInputs

\* C17: add_character(c) for a character registered by an earlier
\* add_character(c), with or without schedule entries added since, changes
\* nothing: the character set, c's schedule list (never reset to empty) and
\* the rest of the world are as they were.
C17_AddCharacterIdempotent ==
    [][ /\ (/\ call'.op = "add_character"
            /\ call'.args.character \in ended'[1].found.characters
            /\ call'.args.character \in DOMAIN ended'[1].found.npc_schedules)
           => /\ ret' = Returned(None)
              /\ world' = world_of(ended'[1].found)
              /\ validation_history' = ended'[1].found.validation_history
              /\ UNCHANGED <<world, validation_history>>
        /\ (/\ call'.op = "add_character:"
            /\ calls'[call'.args.caller].character
                  \in calls'[call'.args.caller].found.characters
            /\ calls'[call'.args.caller].character
                  \in DOMAIN calls'[call'.args.caller].found.npc_schedules)
           => UNCHANGED <<world, validation_history>> ]_vars

\* add_character for a character who has two schedule entries, next to
\* nobody else
C17_Witness ==
    /\ call.op = "add_character"
    /\ call.args.character = "Nathan"
    /\ ended[1].found.characters = {"Nathan"}
    /\ Len(ended[1].found.npc_schedules["Nathan"]) = 2
    /\ characters = {"Nathan"}
    /\ Len(npc_schedules["Nathan"]) = 2

\* the positions of the relationships the character is a party of
PartyOf(c) ==
    {i \in DOMAIN relationships :
        relationships[i].character_a = c \/ relationships[i].character_b = c}

\* the stored schedule list of the character
StoredEntries(c) == IF c \in DOMAIN npc_schedules THEN npc_schedules[c] ELSE <<>>

\* C18: export_character_knowledge(c) returns the facts c knows by
\* character_knows_fact and no other fact, the events c is a participant or
\* a witness of and no other event, the relationships c is a party of and no
\* other, and all entries of c's schedule and of nobody else's; the call
\* changes nothing in the world.
C18_ExportExactly ==
    [][ call'.op = "export_character_knowledge"
        => LET c == call'.args.character
               r == ret'.value
           IN /\ ret'.raised = ""
              /\ UNCHANGED <<world, validation_history>>
              /\ world = world_of(ended'[1].found)
              /\ validation_history = ended'[1].found.validation_history
              /\ r.character = c
              /\ Range(r.known_facts)
                   = {[key |-> k, value |-> facts[k].value,
                       category |-> facts[k].category] :
                         k \in {x \in DOMAIN facts : character_knows_fact(c, x)}}
              /\ Len(r.known_facts)
                   = Cardinality({x \in DOMAIN facts : character_knows_fact(c, x)})
              /\ Range(r.known_events)
                   = {[id |-> i, description |-> events[i].description,
                       timestamp |-> events[i].timestamp,
                       location |-> events[i].location] :
                         i \in {x \in DOMAIN events :
                                  c \in Range(events[x].participants)
                                        \cup Range(events[x].witnesses)}}
              /\ Len(r.known_events)
                   = Cardinality({x \in DOMAIN events :
                                    c \in Range(events[x].participants)
                                          \cup Range(events[x].witnesses)})
              /\ Len(r.relationships) = Cardinality(PartyOf(c))
              /\ \A x \in Range(r.relationships) :
                    Count(x, r.relationships)
                      = Cardinality({i \in PartyOf(c) :
                          /\ x.type = relationships[i].relationship_type
                          /\ x.description = relationships[i].description
                          /\ {x.with, c} = {relationships[i].character_a,
                                              relationships[i].character_b}})
              /\ Len(r.schedule) = Len(StoredEntries(c))
              /\ \A x \in Range(r.schedule) :
                    Count(x, r.schedule)
                      = Cardinality({i \in DOMAIN StoredEntries(c) :
                          /\ x.time = TimeBlock_str(StoredEntries(c)[i].time_block)
                          /\ x.location = StoredEntries(c)[i].location
                          /\ x.activity = StoredEntries(c)[i].activity
                          /\ x.with = StoredEntries(c)[i].with_characters
                          /\ x.notes = StoredEntries(c)[i].notes})
      ]_vars

\* Helena's export from a world that holds, of each kind, something of hers
\* and something that is not: a public fact and a private one she is no
\* witness of, an event she took part in and one she did not, a
\* relationship of hers and one of others, an entry of hers and one of
\* Nathan's
C18_Witness ==
    /\ call.op = "export_character_knowledge"
    /\ call.args.character = "Helena"
    /\ DOMAIN facts = {"victim", "cause_of_death"}
    /\ Len(ret.value.known_facts) = 1
    /\ DOMAIN events = {"murder", "argument"}
    /\ Len(ret.value.known_events) = 1
    /\ Len(relationships) = 2
    /\ Len(ret.value.relationships) = 1
    /\ ret.value.relationships[1].with = "Nathan"
    /\ total_schedule_entries = 2
    /\ Len(ret.value.schedule) = 1
    /\ ret.value.schedule[1].time = "Day 1 - Morning"

\* the unmarked results of the last call of the category: the result of a
\* validate_claim with no mark set, the results of a validate_statement
\* whose claim_text is in neither marked list
UnmarkedResults(category) ==
    IF call.op = "validate_claim"
    THEN IF /\ ~call.args.is_intentional_lie
            /\ ~call.args.is_intentional_omission
            /\ call.args.claim.category = category
         THEN {ret.value}
         ELSE {}
    ELSE IF call.op = "validate_statement"
    THEN {ReturnedResults[i] : i \in
            {j \in DOMAIN ReturnedResults :
                /\ ReturnedResults[j].claim.category = category
                /\ ~InList(ReturnedResults[j].claim.claim_text, call.args.marked_lies)
                /\ ~InList(ReturnedResults[j].claim.claim_text,
                           call.args.marked_omissions)}}
    ELSE {}

\* C19: the result of an unmarked location claim is valid iff the claimed
\* value equals, ignoring case, the name of a registered location (one
\* add_location registered or one that came with an event), and is never a
\* lie; with "Library" registered the claim extracted from "I was in the
\* library" is valid.
C19_LocationClaim ==
    /\ \A r \in UnmarkedResults("location") :
          /\ r.is_valid <=> \E loc \in locations :
                               EqualIgnoringCase(loc, str(r.claim.value))
          /\ ~r.is_lie
    /\ (/\ call.op = "validate_statement"
        /\ call.args.statement = <<"I", "was", "in", "the", "library">>
        /\ "Library" \in locations)
       => /\ Len(ReturnedResults) = 1
          /\ ReturnedResults[1].claim.claim_text = "I was in the library"
          /\ ReturnedResults[1].claim.category = "location"
          /\ ReturnedResults[1].is_valid

\* a place only an event brought in was claimed in lower case and found,
\* after a place nobody registered was claimed and not found
C19_Witness ==
    /\ call.op = "validate_claim"
    /\ ~call.args.is_intentional_lie
    /\ call.args.claim.value = PyStr("sitting room")
    /\ locations = {"Sitting Room"}
    /\ ret.value.is_valid
    /\ Len(validation_history) = 2
    /\ validation_history[1].claim.value = PyStr("cellar")
    /\ ~validation_history[1].is_valid
    /\ ~validation_history[1].is_lie

\* C20: the result of an unmarked person claim is valid iff the claimed
\* value is, letter for letter, the name of a registered character, and is
\* never a lie.
C20_PersonClaim ==
    \A r \in UnmarkedResults("person") :
       /\ r.is_valid <=> str(r.claim.value) \in characters
       /\ ~r.is_lie

\* a registered name claimed in lower case was not found
C20_Witness ==
    /\ call.op = "validate_claim"
    /\ ~call.args.is_intentional_lie
    /\ call.args.claim.value = PyStr("nathan")
    /\ "Nathan" \in characters
    /\ ~ret.value.is_valid
    /\ ~ret.value.is_lie
    /\ Len(validation_history) = 2
    /\ validation_history[1].claim.value = PyStr("Arthur")
    /\ validation_history[1].is_valid

(***************************************************************************)
(* Properties of IntentionAnalyzer, NPCAgent and DialogueEngine.           *)
(***************************************************************************)
\* the secrets sharing a lower-cased word with the statement, by position
SharingSecrets(statement, secrets) ==
    {i \in DOMAIN secrets :
        \E a \in DOMAIN secrets[i], b \in DOMAIN statement :
            lower(secrets[i][a]) = lower(statement[b])}

\* the position of the j-th secret among those of the set of positions
NthOf(positions, j) ==
    CHOOSE i \in positions : Cardinality({k \in positions : k <= i}) = j

\* C21: analyze_for_deception returns no lies, one omission flag for each
\* secret of the character sharing a lower-cased word with the statement, in
\* the order of the secrets, none for any other secret, and leaves the
\* character and the world as they were.
C21_AnalyzeFlagsSharingSecrets ==
    [][call'.op = "analyze_for_deception" =>
          LET statement == call'.args.statement
              secrets == agents[call'.args.character].secrets
              sharing == SharingSecrets(statement, secrets)
              flags == ret'.value.likely_omissions
          IN /\ ret'.value.likely_lies = <<>>
             /\ Len(flags) = Cardinality(sharing)
             /\ \A j \in DOMAIN flags :
                   flags[j] = "Potential omission related to: "
                                  \o join(secrets[NthOf(sharing, j)])
             /\ UNCHANGED <<agents, npcs, world, validation_history>>]_vars

\* a statement was analysed that shares a word with two of three secrets
C21_Witness ==
    /\ call.op = "analyze_for_deception"
    /\ Len(agents[call.args.character].secrets) = 3
    /\ ret.value.likely_lies = <<>>
    /\ ret.value.likely_omissions =
          <<"Potential omission related to: I poisoned Elias",
            "Potential omission related to: The cellar key">>

\* C22: in validate_claim a claim marked only as an omission gives a valid
\* result with is_omission and without is_lie, a claim marked as lie and as
\* omission gives the lie result, and an unmarked location or person claim
\* is valid exactly when the place or the person is registered, whatever
\* fact is stored under its key.
C22_MarkPrecedence ==
    [][call'.op = "validate_claim" =>
          LET a == call'.args
              r == ret'.value
              claimed == a.claim.value.repr
          IN /\ (a.is_intentional_omission /\ ~a.is_intentional_lie)
                    => r.is_valid /\ r.is_omission /\ ~r.is_lie
             /\ (a.is_intentional_omission /\ a.is_intentional_lie)
                    => /\ r.is_lie /\ ~r.is_omission /\ r.is_valid
                       /\ r.reason = "Intentional lie by character"
             /\ (~a.is_intentional_omission /\ ~a.is_intentional_lie
                    /\ a.claim.category = "location")
                    => /\ r.is_valid = (\E l \in locations : lower(l) = lower(claimed))
                       /\ ~r.is_lie
             /\ (~a.is_intentional_omission /\ ~a.is_intentional_lie
                    /\ a.claim.category = "person")
                    => /\ r.is_valid = (claimed \in characters)
                       /\ ~r.is_lie]_vars

\* after a claim marked only as an omission, an unmarked claim about a
\* registered place was found valid while the fact stored under its key
\* names another place
C22_Witness ==
    /\ marks.omissions = 1
    /\ call.op = "validate_claim"
    /\ ~call.args.is_intentional_lie /\ ~call.args.is_intentional_omission
    /\ call.args.claim.category = "location"
    /\ call.args.claim.key \in DOMAIN facts
    /\ lower(facts[call.args.claim.key].value.repr) # lower(call.args.claim.value.repr)
    /\ ret.value.is_valid

\* C23: once a character has an entry for a (day, period),
\* get_character_location_at_time and verify_character_claim_time_location
\* answer with the location of the entry added first for that slot, and no
\* later call changes which entry that is: entries added later, for the slot
\* or another, come after it in the stored list.
C23_FirstAddedWins ==
    [][\A c \in SlotCharacterInputs, d \in SlotDayInputs, p \in SlotPeriodInputs :
          SlotEntries(c, d, p) # {} =>
             LET at == FirstOf(SlotEntries(c, d, p))
                 first == npc_schedules[c][at].location
             IN /\ get_character_location_at_time(c, d, p) = Some(first)
                /\ \A claimed \in ClaimedLocationInputs :
                      verify_character_claim_time_location(c, claimed, d, p)
                         = <<lower(first) = lower(claimed), Some(first)>>
                /\ SlotEntries(c, d, p)' # {}
                /\ FirstOf(SlotEntries(c, d, p)') = at
                /\ npc_schedules'[c][at] = npc_schedules[c][at]]_vars

\* the character was looked for in a slot that holds two entries at
\* different places, the one added second sorting no later than the first
C23_Witness ==
    /\ call.op = "get_character_location_at_time"
    /\ LET slot == SlotEntries(call.args.character, call.args.day, call.args.period)
           entries == npc_schedules[call.args.character]
       IN /\ Cardinality(slot) = 2
          /\ \E i \in slot : entries[i].location # entries[FirstOf(slot)].location
          /\ ret.value = Some(entries[FirstOf(slot)].location)

\* C25: every result of category person that validate_statement returns is
\* valid and names a registered character, whatever was registered before
\* the call.
C25_PersonResultsValid ==
    call.op = "validate_statement" =>
        \A i \in DOMAIN ret.value[2] :
            ret.value[2][i].claim.category = "person" =>
                /\ ret.value[2][i].is_valid
                /\ ret.value[2][i].claim.value.repr \in characters

\* a statement naming a registered and an unregistered person was
\* validated: one person result came back, unmarked
C25_Witness ==
    /\ call.op = "validate_statement"
    /\ call.args.statement = <<"I", "saw", "Elias", "and", "Helena", "was", "present">>
    /\ "Elias" \notin characters
    /\ \E i \in DOMAIN ret.value[2] :
          /\ ret.value[2][i].claim.category = "person"
          /\ ret.value[2][i].claim.value = PyStr("Helena")
          /\ ret.value[2][i].reason = "Character exists in world"

IsLie(memory) == memory.type = "lie"
IsOmission(memory) == memory.type = "omission"

\* C29: after every call lies_told is the entries of memory of type "lie"
\* and omissions_made those of type "omission", in the order they have in
\* memory; no line of any call shortens or rewrites memory, lies_told or
\* omissions_made; and reset_conversation empties conversation_history and
\* leaves the three lists as it found them.
C29_MemoryLists ==
    [][\A name \in DOMAIN agents' :
          LET after == agents'[name]
          IN /\ ended' # None =>
                   /\ after.lies_told = SelectSeq(after.memory, IsLie)
                   /\ after.omissions_made = SelectSeq(after.memory, IsOmission)
             /\ name \in DOMAIN agents =>
                   /\ IsPrefix(agents[name].memory, after.memory)
                   /\ IsPrefix(agents[name].lies_told, after.lies_told)
                   /\ IsPrefix(agents[name].omissions_made, after.omissions_made)
             /\ (call'.op = "reset_conversation" /\ ret'.value = TRUE
                    /\ name = ended'[1].npc) =>
                   /\ name = npcs[lower(call'.args.npc_name)]
                   /\ after.conversation_history = <<>>
                   /\ after.memory = ended'[1].found.agents[name].memory
                   /\ after.lies_told = ended'[1].found.agents[name].lies_told
                   /\ after.omissions_made
                         = ended'[1].found.agents[name].omissions_made]_vars

\* the conversation of an agent that remembers a lie, an omission and a
\* turn of conversation was reset
C29_Witness ==
    /\ call.op = "reset_conversation"
    /\ ret.value = TRUE
    /\ \E name \in DOMAIN agents :
          /\ agents[name].conversation_history = <<>>
          /\ Len(agents[name].memory) = 3
          /\ Len(agents[name].lies_told) = 1
          /\ Len(agents[name].omissions_made) = 1
          /\ \E i \in DOMAIN agents[name].memory :
                agents[name].memory[i].type = "conversation"

\* C30: update_emotional_state(new_state) appends a memory entry whose
\* context previous_state is the emotional state the agent had before the
\* call, and leaves emotional_state equal to new_state.
C30_PreviousStateRecorded ==
    [][call'.op = "update_emotional_state" =>
          LET before == ended'[1].found.agents[call'.args.agent]
              after == agents'[call'.args.agent]
              entry == after.memory[Len(after.memory)]
          IN /\ Len(after.memory) = Len(before.memory) + 1
             /\ entry.type = "observation"
             /\ entry.context.previous_state = before.emotional_state
             /\ after.emotional_state = call'.args.new_state]_vars

\* C26: over every step no entry of the validation history is an omission
\* and every entry that is a lie is invalid; get_validation_summary reports
\* omissions = 0; and no line of converse changes omissions_made of any
\* agent.
C26_NoOmissionLogged ==
    [][/\ \A i \in DOMAIN validation_history' :
             /\ ~validation_history'[i].is_omission
             /\ validation_history'[i].is_lie => ~validation_history'[i].is_valid
       /\ call'.op = "get_validation_summary" => ret'.value.omissions = 0
       /\ call'.op \in {"converse", "converse:"} =>
             \A name \in DOMAIN agents :
                agents'[name].omissions_made = agents[name].omissions_made]_vars

\* after a claim marked as an omission was validated, the agent answered
\* with a claim that contradicts a stored fact: the lie is in the history
\* and in lies_told, no omission anywhere
C26_Witness ==
    /\ call.op = "converse"
    /\ marks.omissions >= 1
    /\ \E i \in DOMAIN validation_history : validation_history[i].is_lie
    /\ \E name \in DOMAIN agents :
          /\ agents[name].lies_told # <<>>
          /\ agents[name].omissions_made = <<>>

\* C28: after every converse call with a registered NPC the keys of the
\* NPC's known_facts are the keys of the facts character_knows_fact grants
\* the character in the world as it is, and every value is the value
\* stored; so a fact stored again as non-public without the NPC as witness
\* is no longer among them.  Stated for the keys the world stores and for
\* the calls during which the world stored nothing: what the agent was told
\* directly, and what was stored while the provider was asked, is left out
\* of the account.
C28_KnowledgeMatchesWorld ==
    (call.op = "converse" /\ ended # None /\ ret.raised = ""
        /\ ended[1].npc \in DOMAIN agents
        /\ ended[1].quiet
        /\ ended[1].found.facts = facts) =>
        LET agent == agents[ended[1].npc]
        IN \A k \in DOMAIN facts :
              /\ k \in DOMAIN agent.known_facts
                    <=> character_knows_fact(agent.name, k)
              /\ k \in DOMAIN agent.known_facts
                    => agent.known_facts[k] = facts[k].value

\* a fact that is neither public nor witnessed by the character
SecretFrom(character, fact) == ~fact.is_public /\ ~InList(character, fact.witnesses)

\* C27: two worlds that differ only in facts that are non-public and not
\* witnessed by c export the same known_facts for c.  Any two such worlds
\* are joined by steps that store such a fact under a key that held none or
\* held such a fact: each of these steps leaves the known_facts exported
\* for c as they were, and none of them names the key.
C27_ExportIgnoresSecrets ==
    [][\A c \in CharacterInputs :
          (/\ call'.op = "add_fact"
           /\ SecretFrom(c, facts'[call'.args.key])
           /\ replaced' # None => SecretFrom(c, replaced'[1]))
          => /\ export_character_knowledge(c).known_facts'
                  = export_character_knowledge(c).known_facts
             /\ \A k \in FactKeyInputs :
                   (\E i \in DOMAIN export_character_knowledge(c).known_facts :
                       export_character_knowledge(c).known_facts[i].key = k)'
                      => k # call'.args.key]_vars

\* a fact only Nathan witnesses was stored over one nobody witnesses, with
\* another value, while Helena knows another fact
C27_Witness ==
    /\ call.op = "add_fact"
    /\ replaced # None
    /\ SecretFrom("Helena", replaced[1])
    /\ SecretFrom("Helena", facts[call.args.key])
    /\ facts[call.args.key].witnesses = <<"Nathan">>
    /\ replaced[1].value # facts[call.args.key].value
    /\ export_character_knowledge("Helena").known_facts # <<>>
    /\ export_character_knowledge("Nathan").known_facts
          # export_character_knowledge("Helena").known_facts

\* the results of claims that carry no mark
RECURSIVE Unmarked(_, _)
Unmarked(results, frame) ==
    IF results = <<>> THEN <<>>
    ELSE (IF \/ InList(Head(results).claim.claim_text, frame.marked_lies)
             \/ InList(Head(results).claim.claim_text, frame.marked_omissions)
          THEN <<>> ELSE <<Head(results)>>)
         \o Unmarked(Tail(results), frame)

\* C24: a validate_statement call during which no other call was under way
\* and nothing wrote to the world returns one result for each claim it
\* extracted, in the order of extraction, and leaves the history it found
\* on entry followed by its results for unmarked claims, in that order and
\* nothing between them.
C24_SingleWriterOrder ==
    (call.op = "validate_statement" /\ ended # None /\ ended[1].alone
        /\ world_of(ended[1].found) = world) =>
        LET frame == ended[1]
            results == ret.value[2]
        IN /\ ret.raised = ""
           /\ Len(results) = Len(frame.claims)
           /\ \A i \in DOMAIN results : results[i].claim = frame.claims[i]
           /\ validation_history
                 = frame.found.validation_history \o Unmarked(results, frame)

\* a call of two claims, one of them marked, has run alone and returned;
\* the history it found holds the entries of two calls that took turns: a
\* claim of one statement between the two claims of the other
C24_Witness ==
    /\ call.op = "validate_statement"
    /\ ended # None
    /\ ended[1].alone
    /\ world_of(ended[1].found) = world
    /\ ret.raised = ""
    /\ Len(ret.value[2]) = 2
    /\ LET before == ended[1].found.validation_history
       IN /\ Len(validation_history) = Len(before) + 1
          /\ \E i \in DOMAIN before :
                /\ i + 2 \in DOMAIN before
                /\ before[i].claim.claim_text = "I was in the cellar"
                /\ before[i + 1].claim.claim_text = "I was in the library"
                /\ before[i + 2].claim.claim_text = "tonight"

====
